---------------------------- MODULE Spec2Model ----------------------------
(***************************************************************************)
(* Edge AI pipeline (src/src/edge_ai): the incremental learner, its        *)
(* persistence, and the sensor manager's streaming and shutdown.           *)
(*                                                                         *)
(* Numbers: Python floats are modelled in fixed point, as integers in      *)
(* units of 1/Unit; a division rounds down to the unit.                    *)
(***************************************************************************)
EXTENDS Integers, Sequences, FiniteSets, TLC

(***************************************************************************)
(* Bounds of the model and constants of the program.                       *)
(***************************************************************************)
Unit == 100             \* fixed-point resolution of the modelled floats
MemorySize == 5         \* IncrementalLearner(memory_size=...), SpecLearner
UpdateThreshold == 2    \* IncrementalLearner(update_threshold=...): 1..UpdateThreshold
MaxAdds == 7            \* add_experience calls explored, SpecLearner
MaxRuns == 3            \* runs of experiences of one kind, SpecLearner
DriftMemorySize == 7    \* IncrementalLearner(memory_size=...), SpecDrift
DriftMaxAdds == 12      \* add_experience calls explored, SpecDrift
DriftMaxRuns == 4       \* runs of experiences of one kind, SpecDrift
PersistMaxAdds == 5     \* add_experience calls explored, SpecPersist
PersistMaxOps == 3      \* save, load and restart calls explored, SpecPersist
MaxClusters == 5        \* _update_pattern_clusters(max_clusters=5)
MinThresholdSamples == 5  \* "if len(experiences) < 5: continue"
MinWeightSamples == 2   \* "if len(experiences) < 2: continue"
MinUpdateBuffer == 2    \* "if len(self.experience_buffer) < 2: return"
BufferSize == 2         \* SensorManager(buffer_size=...), Spec
WindowSize == 3         \* SensorPreprocessor(window_size=...), Spec
MaxReads == 4           \* successful sensor reads explored, Spec
MaxStops == 2           \* stop_streaming and shutdown_all calls explored, Spec
MaxStarts == 2          \* start_streaming calls explored, SpecManager
ManagerMaxReads == 2    \* successful sensor reads explored, SpecManager
StopMaxReads == 1       \* successful sensor reads explored, SpecStop
OnDataMaxReads == 8     \* successful sensor reads explored, SpecOnData
SteadyReads == 6        \* readings of one temperature at the start, SpecOnData
CountMemory == 3        \* the largest IncrementalLearner(memory_size=...), SpecCount
CountAdds == 6          \* add_experience calls explored, SpecCount
ScenarioThreshold == 10 \* IncrementalLearner(update_threshold=10), SpecDetect
ScenarioAdds == 20      \* add_experience calls explored, SpecDetect
ScenarioLow == 20       \* the lower of the two fed temperatures, SpecDetect
ScenarioHigh == 24      \* the higher of the two fed temperatures, SpecDetect
ScenarioProbe == 40     \* a temperature far outside the fed ones, SpecDetect
MaxContext == 2         \* self.max_context (50 in the code), scaled down
MaxTicks == 4           \* iterations of the monitoring loop explored, SpecMonitor
MaxHistory == 3         \* readings per sensor buffer at the start of SpecMonitor
NumCallbacks == 3       \* callbacks registered on the sensor, SpecNotify
MaxNotifyReads == 2     \* sensor reads explored, SpecNotify
MaxProcessed == 4       \* readings handed to the preprocessor, SpecPreprocess
MaxBatch == 2           \* readings in one process_batch call, SpecPreprocess
QueryBufferSize == 4    \* SensorManager(buffer_size=...), SpecQuery
StatsCount == 3         \* the readings get_sensor_stats asks for (100), scaled
MaxStored == 5          \* readings stored, SpecQuery
RecentCount == 5
TrendSpan == 3
QuietMark == 60
TempMean == 22          \* stats[SensorType.TEMPERATURE]["mean"]
TempStd == 5            \* stats[SensorType.TEMPERATURE]["std"]

SensorIds == {"sA", "sB"}
FeatureNameList == <<"f1", "f2", "f3">>

(***************************************************************************)
(* Arithmetic helpers.                                                     *)
(***************************************************************************)
Max2(a, b) == IF a >= b THEN a ELSE b
Min2(a, b) == IF a <= b THEN a ELSE b

RECURSIVE SeqSum(_)
SeqSum(s) == IF s = <<>> THEN 0 ELSE Head(s) + SeqSum(Tail(s))

\* floor of the square root, by bisection on lo..hi (lo*lo <= k < (hi+1)^2)
RECURSIVE IsqrtIn(_, _, _)
IsqrtIn(k, lo, hi) ==
    IF lo >= hi THEN lo
    ELSE LET mid == (lo + hi + 1) \div 2
         IN  IF mid * mid <= k THEN IsqrtIn(k, mid, hi) ELSE IsqrtIn(k, lo, mid - 1)
Isqrt(k) == IsqrtIn(k, 0, Min2(k, 46340))

(***************************************************************************)
(* Experiences and the per-sensor groups of an update pass.                *)
(***************************************************************************)
\* add_experience's record; timestamp, label, reward and context are never read
Experience(sid, feats, names) ==
    [sensor_id |-> sid, features |-> feats, feature_names |-> names]

\* a deque that never evicts (what the bound of deque(maxlen=n) rules out)
DequeAppendUnbounded(q, x, n) == Append(q, x)

\* deque(maxlen=n).append
DequeAppend(q, x, n) ==
    IF n = 0 THEN <<>>
    ELSE IF Len(q) >= n THEN Append(Tail(q), x) ELSE Append(q, x)

\* sensor_groups: a dict, iterated in the order its keys were first inserted
RECURSIVE GroupOrder(_)
GroupOrder(buf) ==
    IF buf = <<>> THEN <<>>
    ELSE LET front == GroupOrder(SubSeq(buf, 1, Len(buf) - 1))
             sid == buf[Len(buf)].sensor_id
         IN  IF \E i \in 1..Len(front) : front[i] = sid THEN front
             ELSE Append(front, sid)

Group(buf, sid) == SelectSeq(buf, LAMBDA e : e.sensor_id = sid)

\* len(set(feature_lengths)) > 1
Heterogeneous(g) ==
    \E i, j \in 1..Len(g) : Len(g[i].features) # Len(g[j].features)

\* column i of features_matrix
Column(g, i) == [k \in 1..Len(g) |-> g[k].features[i]]

\* n * n * np.var(column): n * sum(d^2) - (sum d)^2 over the deviations d from
\* the first entry (the variance does not depend on the origin)
ScaledVar(col) ==
    LET d == [k \in 1..Len(col) |-> col[k] - col[1]]
    IN  Len(col) * SeqSum([k \in 1..Len(col) |-> d[k] * d[k]]) - SeqSum(d) * SeqSum(d)

\* f"{sensor_id}_{name}"
Key(sid, name) == <<sid, name>>

MapSet(m, k, v) == [x \in DOMAIN m \cup {k} |-> IF x = k THEN v ELSE m[x]]


(***************************************************************************)
(* _update_feature_weights: variance-normalised weights, blended by EMA.   *)
(***************************************************************************)
\* weights = variances / np.sum(variances), in units of 1/Unit
SampleWeight(g, i, total) == (ScaledVar(Column(g, i)) * Unit) \div total

\* a blend whose coefficients add up to more than 1
BlendWeightOvershoot(old, sample) == (7 * old + 4 * sample) \div 10

\* 0.7 * old + 0.3 * sample
BlendWeight(old, sample) == (7 * old + 3 * sample) \div 10

RECURSIVE WeightsOfNames(_, _, _, _, _)
WeightsOfNames(fw, sid, g, total, i) ==
    IF i > Len(g[1].feature_names) THEN fw
    ELSE LET key == Key(sid, g[1].feature_names[i])
             w == SampleWeight(g, i, total)
         IN  WeightsOfNames(
                 MapSet(fw, key, IF key \in DOMAIN fw THEN BlendWeight(fw[key], w) ELSE w),
                 sid, g, total, i + 1)

WeightsOfSensor(fw, sid, g) ==
    IF Len(g) < MinWeightSamples THEN fw
    ELSE IF Heterogeneous(g) THEN fw
    ELSE LET total == SeqSum([i \in 1..Len(g[1].features) |-> ScaledVar(Column(g, i))])
         IN  IF total > 0 THEN WeightsOfNames(fw, sid, g, total, 1) ELSE fw

RECURSIVE WeightsOver(_, _, _)
WeightsOver(fw, order, buf) ==
    IF order = <<>> THEN fw
    ELSE WeightsOver(WeightsOfSensor(fw, Head(order), Group(buf, Head(order))),
                     Tail(order), buf)

UpdateFeatureWeights(fw, buf) == WeightsOver(fw, GroupOrder(buf), buf)

(***************************************************************************)
(* _update_anomaly_thresholds: band = mean -/+ 3 std, blended by EMA.      *)
(***************************************************************************)
\* np.mean(column), np.std(column) = sqrt(n*n*var) / n
ColMean(col) == SeqSum(col) \div Len(col)
ColStd(col) == Isqrt(ScaledVar(col)) \div Len(col)

\* 0.8 * old + 0.2 * new
BlendBound(old, new) == (8 * old + 2 * new) \div 10

\* a band of no width around the mean
SampleBandNoSpread(col) == [lower |-> ColMean(col), upper |-> ColMean(col)]

\* mean - 3 * std, mean + 3 * std
SampleBand(col) ==
    [lower |-> ColMean(col) - 3 * ColStd(col), upper |-> ColMean(col) + 3 * ColStd(col)]

RECURSIVE ThresholdsOfNames(_, _, _, _)
ThresholdsOfNames(th, sid, g, i) ==
    IF i > Len(g[1].feature_names) THEN th
    ELSE LET key == Key(sid, g[1].feature_names[i])
             new == SampleBand(Column(g, i))
             band == IF key \in DOMAIN th
                     THEN [lower |-> BlendBound(th[key].lower, new.lower),
                           upper |-> BlendBound(th[key].upper, new.upper)]
                     ELSE new
         IN  ThresholdsOfNames(MapSet(th, key, band), sid, g, i + 1)

\* thresholds learned from as few experiences as the weights are
ThresholdsFromTwo(g) == Len(g) >= MinWeightSamples

\* if len(experiences) < 5: continue
EnoughForThresholds(g) == Len(g) >= MinThresholdSamples

ThresholdsOfSensor(th, sid, g) ==
    IF ~EnoughForThresholds(g) THEN th
    ELSE IF Heterogeneous(g) THEN th
    ELSE ThresholdsOfNames(th, sid, g, 1)

RECURSIVE ThresholdsOver(_, _, _)
ThresholdsOver(th, order, buf) ==
    IF order = <<>> THEN th
    ELSE ThresholdsOver(ThresholdsOfSensor(th, Head(order), Group(buf, Head(order))),
                        Tail(order), buf)

UpdateAnomalyThresholds(th, buf) == ThresholdsOver(th, GroupOrder(buf), buf)

(***************************************************************************)
(* _update_pattern_clusters: seed at most MaxClusters centroids from the   *)
(* group, then re-centre each on the points closer than the median.        *)
(***************************************************************************)
\* numpy broadcasting of a length-la vector against a length-lb vector
ShapeError(la, lb) == la # lb /\ la # 1 /\ lb # 1
At(v, j) == IF Len(v) = 1 THEN v[1] ELSE v[j]

\* np.linalg.norm(x - c) squared (the order of distances is that of their squares)
DistSq(x, c) ==
    SeqSum([j \in 1..Max2(Len(x), Len(c)) |-> (At(x, j) - At(c, j)) * (At(x, j) - At(c, j))])

\* the k-th smallest of the distances d[1..n]
OrderStat(d, k) ==
    CHOOSE v \in {d[i] : i \in 1..Len(d)} :
        /\ Cardinality({i \in 1..Len(d) : d[i] < v}) < k
        /\ Cardinality({i \in 1..Len(d) : d[i] <= v}) >= k

\* distances < np.median(distances): for an even count the median is the mean of
\* the two middle distances
BelowMedian(d, i) ==
    LET n == Len(d)
    IN  IF n % 2 = 1 THEN d[i] < OrderStat(d, (n + 1) \div 2)
        ELSE LET lo == OrderStat(d, n \div 2)
                 hi == OrderStat(d, n \div 2 + 1)
             IN  IF lo < hi THEN d[i] <= lo ELSE d[i] < lo

ClosePoints(g, c) ==
    LET d == [k \in 1..Len(g) |-> DistSq(g[k].features, c)]
        idx == SelectSeq([k \in 1..Len(g) |-> k], LAMBDA k : BelowMedian(d, k))
    IN  [k \in 1..Len(idx) |-> g[idx[k]].features]

\* 0.7 * cluster_center + 0.3 * np.mean(close_points, axis=0)
BlendCenter(c, close) ==
    LET m == Len(close)
        width == Max2(Len(c), Len(close[1]))
    IN  [j \in 1..width |->
            (7 * At(c, j) * m + 3 * SeqSum([k \in 1..m |-> close[k][j]])) \div (10 * m)]

\* a centre that a pass leaves where it is
KeepCenter(g, c) == c

\* new_center of one cluster_center; without close points the centre is kept
NewCenter(g, c) ==
    LET close == ClosePoints(g, c)
    IN  IF Len(close) > 0 THEN BlendCenter(c, close) ELSE c

\* np.random.choice(n, min(max_clusters, n), replace=False): every ordered draw
\* of distinct rows, given as the list of the rows' vectors
SeedChoices(g) ==
    LET k == Min2(MaxClusters, Len(g))
        vecs == {g[i].features : i \in 1..Len(g)}
        Count(v) == Cardinality({i \in 1..Len(g) : g[i].features = v})
    IN  {c \in [1..k -> vecs] :
            \A v \in vecs : Cardinality({i \in 1..k : c[i] = v}) <= Count(v)}

\* the update loop over one sensor's clusters; a shape mismatch raises ValueError
\* before pattern_clusters[sensor_id] is reassigned
RecentreSensor(cl, sid, g) ==
    IF \E i \in 1..Len(cl[sid]) : ShapeError(Len(g[1].features), Len(cl[sid][i]))
    THEN [clusters |-> cl, error |-> TRUE]
    ELSE [clusters |-> MapSet(cl, sid, [i \in 1..Len(cl[sid]) |-> NewCenter(g, cl[sid][i])]),
          error |-> FALSE]

\* a sensor that is clustered from its first experience on
ClusteredFromFirst(g) == Len(g) >= 1

\* if len(experiences) < max_clusters: continue
EnoughToCluster(g) == Len(g) >= MaxClusters

\* the outcomes of one sensor's iteration
ClustersOfSensor(cl, sid, g) ==
    IF ~EnoughToCluster(g) THEN {[clusters |-> cl, error |-> FALSE]}
    ELSE IF Heterogeneous(g) THEN {[clusters |-> cl, error |-> FALSE]}
    ELSE IF sid \notin DOMAIN cl
         THEN {RecentreSensor(MapSet(cl, sid, seeds), sid, g) : seeds \in SeedChoices(g)}
         ELSE {RecentreSensor(cl, sid, g)}

RECURSIVE ClustersOver(_, _, _)
ClustersOver(cl, order, buf) ==
    IF order = <<>> THEN {[clusters |-> cl, error |-> FALSE]}
    ELSE LET first == ClustersOfSensor(cl, Head(order), Group(buf, Head(order)))
         IN  UNION {IF r.error THEN {r} ELSE ClustersOver(r.clusters, Tail(order), buf) :
                    r \in first}

\* the set of results the pass can produce (the seeds are drawn at random)
UpdatePatternClusters(cl, buf) == ClustersOver(cl, GroupOrder(buf), buf)

(***************************************************************************)
(* State.                                                                  *)
(***************************************************************************)
VARIABLES
    \* IncrementalLearner
    memory_size, update_threshold, experience_buffer, feature_weights,
    anomaly_thresholds, pattern_clusters, update_count, total_samples,
    \* what the last learner call did (observation, not program state)
    last_call,
    \* the experiences fed so far: how many, of how many kinds in a row
    adds, runs,
    \* the parameter file on disk, the learned state at the last save that the
    \* file still holds (observation), and the persistence calls made so far
    file, saved, ops,
    \* SensorManager and the sensors: BaseSensor.is_active and
    \* MotionSensor._last_motion per sensor, the reading buffers, the task list,
    \* the stop event
    is_active, last_motion, data_buffers, active_tasks, stop_event,
    \* SensorPreprocessor.feature_windows
    feature_windows,
    \* the event loop: every _stream_sensor task ever created with its position
    \* and locals, the task that holds the loop (0: none), and time.time()
    tasks, cur, clock,
    \* the code that drives the manager: its position in start/stop, and the
    \* sensors whose shutdown() has run (observation)
    caller, shut,
    \* EdgeSLMInference: whether a model is loaded, context_memory, and the
    \* continuous_monitoring task (its position, locals and what it has done)
    model, context_memory, monitor,
    \* a sensor with several registered callbacks and its sampling loop: the
    \* loop's position, the reading being delivered, the next callback, and the
    \* callbacks invoked with that reading and those that raised
    notify

learnerVars == <<memory_size, update_threshold, experience_buffer, feature_weights,
                 anomaly_thresholds, pattern_clusters, update_count, total_samples>>
learnedVars == <<feature_weights, anomaly_thresholds, pattern_clusters, update_count>>
feedVars == <<adds, runs>>
persistVars == <<file, saved, ops>>
engineVars == <<model, context_memory, monitor>>
callbackVars == <<notify>>
streamVars == <<is_active, last_motion, data_buffers, active_tasks, stop_event,
                feature_windows, tasks, cur, clock, caller, shut, engineVars,
                callbackVars>>
vars == <<learnerVars, last_call, feedVars, persistVars, streamVars>>

EmptyMap == <<>>

\* IncrementalLearner.__init__
LearnerInit(memory, threshold) ==
    /\ memory_size = memory
    /\ update_threshold = threshold
    /\ experience_buffer = <<>>
    /\ feature_weights = EmptyMap
    /\ anomaly_thresholds = EmptyMap
    /\ pattern_clusters = EmptyMap
    /\ update_count = 0
    /\ total_samples = 0

NoCall == [op |-> "none", passes |-> 0, raised |-> FALSE, before |-> 0, over |-> <<>>]

(***************************************************************************)
(* add_experience and _incremental_update.                                 *)
(***************************************************************************)
\* a threshold test that holds only at the call that reaches the threshold
ThresholdCrossed(n, threshold) == n = threshold

\* len(self.experience_buffer) >= self.update_threshold
ThresholdReached(n, threshold) == n >= threshold

\* _incremental_update's guard: it returns at once on a buffer of fewer than 2
PassRuns(n, threshold) == ThresholdReached(n, threshold) /\ n >= MinUpdateBuffer

\* the experiences an update pass iterates over: the whole buffer
PassInput(buf) == buf

\* the three sub-updates in order, then update_count += 1; a ValueError raised
\* by the cluster update leaves the weights and thresholds already written
IncrementalUpdate(buf) ==
    \E r \in UpdatePatternClusters(pattern_clusters, PassInput(buf)) :
        /\ feature_weights' = UpdateFeatureWeights(feature_weights, PassInput(buf))
        /\ anomaly_thresholds' = UpdateAnomalyThresholds(anomaly_thresholds, PassInput(buf))
        /\ pattern_clusters' = r.clusters
        /\ update_count' = IF r.error THEN update_count ELSE update_count + 1
        /\ last_call' = [op |-> "add", passes |-> 1, raised |-> r.error,
                         before |-> Len(experience_buffer), over |-> PassInput(buf)]

AddExperience(e) ==
    LET buf == DequeAppend(experience_buffer, e, memory_size)
    IN  /\ experience_buffer' = buf
        /\ total_samples' = total_samples + 1
        /\ UNCHANGED <<memory_size, update_threshold>>
        /\ IF PassRuns(Len(buf), update_threshold)
           THEN IncrementalUpdate(buf)
           ELSE /\ UNCHANGED learnedVars
                /\ last_call' = [op |-> "add", passes |-> 0, raised |-> FALSE,
                                 before |-> Len(experience_buffer), over |-> <<>>]

(***************************************************************************)
(* The learner fed directly: experiences of two sensors whose vector       *)
(* length changes over time.                                               *)
(***************************************************************************)
FedLengths == {2, 3}
FedVector(len, v) == [j \in 1..len |-> Unit * v * j]
FedExperience(sid, len, v) ==
    Experience(sid, FedVector(len, v), SubSeq(FeatureNameList, 1, len))

SameKind(e1, e2) ==
    e1.sensor_id = e2.sensor_id /\ Len(e1.features) = Len(e2.features)

\* one add_experience call, its value drawn from vals; at most maxAdds calls, the
\* kind (sensor, length) of experience changing fewer than maxRuns times
Feed(sids, lens, vals, maxAdds, maxRuns) ==
    /\ adds < maxAdds
    /\ \E sid \in sids, len \in lens, v \in vals :
          LET e == FedExperience(sid, len, v)
              changed == experience_buffer # <<>>
                         /\ ~SameKind(experience_buffer[Len(experience_buffer)], e)
          IN  /\ changed => runs < maxRuns
              /\ runs' = IF changed THEN runs + 1 ELSE runs
              /\ adds' = adds + 1
              /\ AddExperience(e)

(***************************************************************************)
(* save_learned_parameters and load_learned_parameters.  The file holds a  *)
(* JSON object (doc); a field of the file that load finds can have been    *)
(* dropped (absent) or replaced by a malformed value (bad).                *)
(***************************************************************************)
RequiredFields == {"feature_weights", "anomaly_thresholds", "pattern_clusters",
                   "metadata", "update_count", "total_samples"}

\* list(v) of a (lower, upper) tuple, and tuple(v) of the list read back
ThresholdsToJson(th) == [k \in DOMAIN th |-> <<th[k].lower, th[k].upper>>]
ThresholdsFromJson(j) == [k \in DOMAIN j |-> [lower |-> j[k][1], upper |-> j[k][2]]]

\* c.tolist() of each centroid array, and np.array(c) of each list read back
ClustersToJson(cl) ==
    [k \in DOMAIN cl |-> [i \in 1..Len(cl[k]) |-> [json_list |-> cl[k][i]]]]
ClustersFromJson(j) ==
    [k \in DOMAIN j |-> [i \in 1..Len(j[k]) |-> j[k][i].json_list]]

LearnedRecord(fw, th, cl, uc, ts) ==
    [feature_weights |-> fw, anomaly_thresholds |-> th, pattern_clusters |-> cl,
     update_count |-> uc, total_samples |-> ts]

Learned ==
    LearnedRecord(feature_weights, anomaly_thresholds, pattern_clusters,
                  update_count, total_samples)

FreshLearned == LearnedRecord(EmptyMap, EmptyMap, EmptyMap, 0, 0)

\* a params object whose metadata carries update_count in place of total_samples
SavedRecordMixedCounts(st) ==
    [feature_weights |-> st.feature_weights,
     anomaly_thresholds |-> ThresholdsToJson(st.anomaly_thresholds),
     pattern_clusters |-> ClustersToJson(st.pattern_clusters),
     metadata |-> [update_count |-> st.update_count, total_samples |-> st.update_count]]

\* the params object json.dump writes (learning_rate and timestamp are never read)
SavedRecord(st) ==
    [feature_weights |-> st.feature_weights,
     anomaly_thresholds |-> ThresholdsToJson(st.anomaly_thresholds),
     pattern_clusters |-> ClustersToJson(st.pattern_clusters),
     metadata |-> [update_count |-> st.update_count, total_samples |-> st.total_samples]]

NoSuchFile == [exists |-> FALSE, doc |-> SavedRecord(FreshLearned), absent |-> {}, bad |-> {}]

\* malformed values that load takes in without raising: a feature_weights
\* object whose entries are not weights, a counter that is not a count
BadWeights == [k \in {<<"bad", "bad">>} |-> -1]
BadCount == -1

\* what params[fld] (metadata[fld]) yields for a field that is present
FieldValue(f, fld) ==
    IF fld = "feature_weights"
        THEN IF fld \in f.bad THEN BadWeights ELSE f.doc.feature_weights
    ELSE IF fld = "update_count"
        THEN IF fld \in f.bad THEN BadCount ELSE f.doc.metadata.update_count
    ELSE IF fld \in f.bad THEN BadCount ELSE f.doc.metadata.total_samples

\* params[fld] raises KeyError on an absent field; .items() or the subscript
\* raises on an anomaly_thresholds, pattern_clusters or metadata of the wrong type
Raises(f, fld) ==
    \/ fld \in f.absent
    \/ fld \in f.bad /\ fld \in {"anomaly_thresholds", "pattern_clusters", "metadata"}

\* load_learned_parameters: the assignments run in order until one raises; the
\* except clause returns False and undoes nothing
LoadResult(f, st) ==
    LET fail(x) == [ok |-> FALSE, state |-> x]
        s1 == [st EXCEPT !.feature_weights = FieldValue(f, "feature_weights")]
        s2 == [s1 EXCEPT !.anomaly_thresholds = ThresholdsFromJson(f.doc.anomaly_thresholds)]
        s3 == [s2 EXCEPT !.pattern_clusters = ClustersFromJson(f.doc.pattern_clusters)]
        s4 == [s3 EXCEPT !.update_count = FieldValue(f, "update_count")]
        s5 == [s4 EXCEPT !.total_samples = FieldValue(f, "total_samples")]
    IN  IF ~f.exists THEN fail(st)
        ELSE IF Raises(f, "feature_weights") THEN fail(st)
        ELSE IF Raises(f, "anomaly_thresholds") THEN fail(s1)
        ELSE IF Raises(f, "pattern_clusters") THEN fail(s2)
        ELSE IF Raises(f, "metadata") THEN fail(s3)
        ELSE IF Raises(f, "update_count") THEN fail(s3)
        ELSE IF Raises(f, "total_samples") THEN fail(s4)
        ELSE [ok |-> TRUE, state |-> s5]

\* the record is complete: every required field is there and well formed
WellFormedFile(f) == f.exists /\ f.absent = {} /\ f.bad = {}

SaveLearnedParameters ==
    /\ ops < PersistMaxOps
    /\ ops' = ops + 1
    /\ file' = [exists |-> TRUE, doc |-> SavedRecord(Learned), absent |-> {}, bad |-> {}]
    /\ saved' = [intact |-> TRUE, state |-> Learned]
    /\ last_call' = [op |-> "save"]
    /\ UNCHANGED <<learnerVars, feedVars, streamVars>>

\* what open/json.load can find in place of the file f: the file itself, no
\* file, or the file with one required field dropped or malformed
FilesAsRead(f) ==
    {f, NoSuchFile}
    \cup (IF f.exists
          THEN {[f EXCEPT !.absent = {fld}] : fld \in RequiredFields}
               \cup {[f EXCEPT !.bad = {fld}] : fld \in RequiredFields}
          ELSE {})

LoadLearnedParameters ==
    /\ ops < PersistMaxOps
    /\ ops' = ops + 1
    /\ \E f \in FilesAsRead(file) :
          LET r == LoadResult(f, Learned)
          IN  /\ feature_weights' = r.state.feature_weights
              /\ anomaly_thresholds' = r.state.anomaly_thresholds
              /\ pattern_clusters' = r.state.pattern_clusters
              /\ update_count' = r.state.update_count
              /\ total_samples' = r.state.total_samples
              /\ last_call' = [op |-> "load", ok |-> r.ok, pre |-> Learned,
                               complete |-> WellFormedFile(f),
                               intact |-> (f = file /\ saved.intact),
                               saved |-> saved.state]
    /\ UNCHANGED <<memory_size, update_threshold, experience_buffer, feedVars, file, saved,
                   streamVars>>

NothingSaved == [intact |-> FALSE, state |-> FreshLearned]

\* a new process: a fresh learner, the file left as it is
RestartLearner ==
    /\ ops < PersistMaxOps
    /\ ops' = ops + 1
    /\ experience_buffer' = <<>>
    /\ feature_weights' = EmptyMap
    /\ anomaly_thresholds' = EmptyMap
    /\ pattern_clusters' = EmptyMap
    /\ update_count' = 0
    /\ total_samples' = 0
    /\ last_call' = NoCall
    /\ UNCHANGED <<memory_size, update_threshold, feedVars, file, saved, streamVars>>

\* save_learned_parameters step by step.  The params object is built first;
\* open(filepath, 'w') truncates the file; json.dump writes the object to it
\* piece by piece, in the order of its keys; leaving the with block closes it.
SaveChunks ==
    <<{"feature_weights"}, {"anomaly_thresholds"}, {"pattern_clusters"},
      {"metadata", "update_count", "total_samples"}>>

Saving == last_call.op = "saving"

\* with open(filepath, 'w') as f:
SaveOpens ==
    /\ ~Saving
    /\ ops < PersistMaxOps
    /\ ops' = ops + 1
    /\ file' = [exists |-> TRUE, doc |-> SavedRecord(Learned),
                absent |-> RequiredFields, bad |-> {}]
    /\ saved' = [saved EXCEPT !.intact = FALSE]
    /\ last_call' = [op |-> "saving", chunk |-> 0, previous |-> file]
    /\ UNCHANGED <<learnerVars, feedVars, streamVars>>

\* json.dump(params, f, indent=2): the next piece reaches the file
SaveWrites ==
    /\ Saving
    /\ last_call.chunk < Len(SaveChunks)
    /\ file' = [file EXCEPT !.absent = @ \ SaveChunks[last_call.chunk + 1]]
    /\ last_call' = [last_call EXCEPT !.chunk = @ + 1]
    /\ UNCHANGED <<learnerVars, feedVars, saved, ops, streamVars>>

\* the with block is left after the last piece
SaveCloses ==
    /\ Saving
    /\ last_call.chunk = Len(SaveChunks)
    /\ saved' = [intact |-> TRUE, state |-> Learned]
    /\ last_call' = [op |-> "save"]
    /\ UNCHANGED <<learnerVars, feedVars, file, ops, streamVars>>

\* the write fails (an OSError such as a full disk, which _periodic_save
\* catches and prints) or the process is stopped: the file stays as written so far
SaveInterrupted ==
    /\ Saving
    /\ last_call' = [op |-> "save_failed", chunk |-> last_call.chunk,
                     previous |-> last_call.previous]
    /\ UNCHANGED <<learnerVars, feedVars, persistVars, streamVars>>

(***************************************************************************)
(* detect_anomaly.  A score is kept in units of 1/Unit, rounded up, so that *)
(* a positive score stays positive.                                        *)
(***************************************************************************)
CeilDiv(a, b) == (a + b - 1) \div b
Abs(x) == IF x < 0 THEN 0 - x ELSE x

\* a threshold lookup by feature name alone, whatever the sensor
HasThresholdOfAnySensor(th, key) == \E k \in DOMAIN th : k[2] = key[2]

\* if key in self.anomaly_thresholds
HasThreshold(th, key) == key \in DOMAIN th

\* the band a lookup finds (under HasThreshold: the key's own)
BandOf(th, key) == th[CHOOSE k \in DOMAIN th : k = key \/ (key \notin DOMAIN th /\ k[2] = key[2])]

\* a band test that looks at the upper bound only
AboveBand(band, value) == value > band.upper

\* value < lower or value > upper
OutOfBand(band, value) == value < band.lower \/ value > band.upper

\* how far outside the band, relative to the violated bound; 1.0 if that bound is 0
FeatureScore(band, value) ==
    LET bound == IF value < band.lower THEN band.lower ELSE band.upper
        dist == IF value < band.lower THEN band.lower - value ELSE value - band.upper
    IN  IF bound # 0 THEN CeilDiv(dist * Unit, Abs(bound)) ELSE Unit

\* anomaly_scores: the scores of the features i.. of the record that have a
\* threshold and lie outside it
RECURSIVE AnomalyScores(_, _, _)
AnomalyScores(th, f, i) ==
    IF i > Len(f.feature_names) THEN <<>>
    ELSE LET key == Key(f.sensor_id, f.feature_names[i])
             here == IF HasThreshold(th, key) /\ OutOfBand(BandOf(th, key), f.features[i])
                     THEN <<FeatureScore(BandOf(th, key), f.features[i])>>
                     ELSE <<>>
         IN  here \o AnomalyScores(th, f, i + 1)

\* a result whose score is that of the first triggered feature alone
DetectAnomalyFirstScore(th, f) ==
    LET scores == AnomalyScores(th, f, 1)
    IN  IF scores # <<>>
        THEN [is_anomaly |-> TRUE, score |-> scores[1]]
        ELSE [is_anomaly |-> FALSE, score |-> 0]

\* detect_anomaly: (is_anomaly, anomaly_score)
DetectAnomalyResult(th, f) ==
    LET scores == AnomalyScores(th, f, 1)
    IN  IF scores # <<>>
        THEN [is_anomaly |-> TRUE, score |-> CeilDiv(SeqSum(scores), Len(scores))]
        ELSE [is_anomaly |-> FALSE, score |-> 0]

\* a detect_anomaly call on a single-feature record of sensor sid
DetectCall(sids, vals) ==
    /\ \E sid \in sids, v \in vals :
          LET f == FedExperience(sid, 1, v)
          IN  last_call' = [op |-> "detect", features |-> f,
                           result |-> DetectAnomalyResult(anomaly_thresholds, f)]
    /\ UNCHANGED <<learnerVars, feedVars, persistVars, streamVars>>

\* a detect_anomaly call on a three-feature record of sensor sid whose first
\* two values are drawn from firsts and seconds
DetectVector(sids, firsts, seconds) ==
    /\ \E sid \in sids, a \in firsts, b \in seconds :
          LET f == Experience(sid, <<a, b, 0>>, FeatureNameList)
          IN  last_call' = [op |-> "detect", features |-> f,
                           result |-> DetectAnomalyResult(anomaly_thresholds, f)]
    /\ UNCHANGED <<learnerVars, feedVars, persistVars, streamVars>>

\* predict_pattern: None for a sensor without clusters, the (0-based) index of
\* the first closest centroid, or the ValueError of numpy's subtraction
PredictPattern(cl, f) ==
    IF f.sensor_id \notin DOMAIN cl \/ cl[f.sensor_id] = <<>>
    THEN [kind |-> "none", index |-> 0]
    ELSE LET clusters == cl[f.sensor_id]
             d == [i \in 1..Len(clusters) |-> DistSq(f.features, clusters[i])]
         IN  IF \E i \in 1..Len(clusters) : ShapeError(Len(f.features), Len(clusters[i]))
             THEN [kind |-> "raised", index |-> 0]
             ELSE [kind |-> "index",
                   index |-> (CHOOSE i \in 1..Len(d) :
                                 /\ \A j \in 1..Len(d) : d[i] <= d[j]
                                 /\ \A j \in 1..(i - 1) : d[j] > d[i]) - 1]

\* a lookup that enters the default for a key it does not find
\* (self.feature_weights.setdefault(key, 0.0))
FeatureImportanceSetDefault(fw, sid, name) ==
    [value |-> IF Key(sid, name) \in DOMAIN fw THEN fw[Key(sid, name)] ELSE 0,
     weights |-> IF Key(sid, name) \in DOMAIN fw THEN fw ELSE MapSet(fw, Key(sid, name), 0)]

\* get_feature_importance: self.feature_weights.get(key, 0.0), and the
\* feature_weights it leaves
GetFeatureImportance(fw, sid, name) ==
    [value |-> IF Key(sid, name) \in DOMAIN fw THEN fw[Key(sid, name)] ELSE 0,
     weights |-> fw]

\* get_learning_summary (buffer_utilization in hundredths)
GetLearningSummary ==
    [total_samples |-> total_samples, update_count |-> update_count,
     features_tracked |-> Cardinality(DOMAIN feature_weights),
     anomaly_thresholds_learned |-> Cardinality(DOMAIN anomaly_thresholds),
     pattern_clusters |-> [sid \in DOMAIN pattern_clusters |-> Len(pattern_clusters[sid])],
     buffer_utilization |-> (Len(experience_buffer) * Unit) \div memory_size]

\* a predict_pattern call on a vector of len features
PredictCall(sids, lens, vals) ==
    /\ \E sid \in sids, len \in lens, v \in vals :
          LET f == FedExperience(sid, len, v)
          IN  last_call' = [op |-> "predict", features |-> f,
                           result |-> PredictPattern(pattern_clusters, f)]
    /\ UNCHANGED <<learnerVars, feedVars, persistVars, streamVars>>

\* a get_feature_importance call
ImportanceCall(sids) ==
    /\ \E sid \in sids, k \in 1..Len(FeatureNameList) :
          LET r == GetFeatureImportance(feature_weights, sid, FeatureNameList[k])
          IN  /\ feature_weights' = r.weights
              /\ last_call' = [op |-> "importance", sensor |-> sid,
                               name |-> FeatureNameList[k], result |-> r.value]
    /\ UNCHANGED <<memory_size, update_threshold, experience_buffer, anomaly_thresholds,
                   pattern_clusters, update_count, total_samples, feedVars, persistVars,
                   streamVars>>

\* a get_learning_summary call
SummaryCall ==
    /\ last_call' = [op |-> "summary", result |-> GetLearningSummary]
    /\ UNCHANGED <<learnerVars, feedVars, persistVars, streamVars>>

(***************************************************************************)
(* Sensors, preprocessing and streaming.  Coroutines run on one event      *)
(* loop: a task keeps the loop from the point it is resumed to its next    *)
(* suspending await, and no other coroutine runs in between.               *)
(***************************************************************************)
\* setup_sensors: the sensors in the order they are registered
Registered == <<"sA", "sB">>
SensorType(s) == IF s = "sA" THEN "temperature" ELSE "motion"

NoReading == [sensor_id |-> "none", timestamp |-> 0, value |-> 0, last_motion |-> 0]
NoFeatures == Experience("none", <<>>, <<>>)

\* SensorReading of a sensor at time now
SensorReading(s, now, v, lm) ==
    [sensor_id |-> s, timestamp |-> now, value |-> v, last_motion |-> lm]

\* what an active sensor can measure: a temperature rounded to 2 decimals, or
\* motion detected or not (1 / 0)
ReadingValues(s) ==
    IF SensorType(s) = "temperature"
    THEN {TempMean * Unit - Unit \div 2, TempMean * Unit + Unit \div 2}
    ELSE {0, 1}

SeqMin(s) == CHOOSE x \in {s[i] : i \in 1..Len(s)} : \A i \in 1..Len(s) : x <= s[i]
SeqMax(s) == CHOOSE x \in {s[i] : i \in 1..Len(s)} : \A i \in 1..Len(s) : x >= s[i]

\* a window test that holds from the first sample on
WindowStarted(w) == Len(w) >= 1

\* if len(window) >= self.window_size
WindowFull(w) == Len(w) >= WindowSize

\* _process_temperature: the window after the append and the features
ProcessTemperature(window, reading) ==
    LET value == reading.value
        w == DequeAppend(window, value, WindowSize)
        norm == (value - TempMean * Unit) \div TempStd
        delta == IF Len(w) >= 2 THEN <<w[Len(w)] - w[Len(w) - 1]>> ELSE <<>>
        dname == IF Len(w) >= 2 THEN <<"temperature_delta">> ELSE <<>>
        full == WindowFull(w)
        stats == IF full THEN <<ColMean(w), ColStd(w), SeqMin(w), SeqMax(w)>> ELSE <<>>
        snames == IF full
                  THEN <<"temperature_mean", "temperature_std",
                         "temperature_min", "temperature_max">>
                  ELSE <<>>
    IN  [window |-> w,
         features |-> Experience(reading.sensor_id, <<norm>> \o delta \o stats,
                                 <<"temperature_current">> \o dname \o snames)]

\* _process_motion
ProcessMotion(window, reading) ==
    LET detected == IF reading.value # 0 THEN Unit ELSE 0
        w == DequeAppend(window, detected, WindowSize)
        full == WindowFull(w)
        since == IF reading.value # 0 THEN 0 ELSE reading.timestamp - reading.last_motion
        extra == IF full
                 THEN <<SeqSum(w) \div Len(w), Min2((since * Unit) \div 60, 10 * Unit)>>
                 ELSE <<>>
        enames == IF full THEN <<"motion_frequency", "time_since_motion">> ELSE <<>>
    IN  [window |-> w,
         features |-> Experience(reading.sensor_id, <<detected>> \o extra,
                                 <<"motion_current">> \o enames)]

\* process_reading
ProcessReading(window, reading) ==
    IF SensorType(reading.sensor_id) = "temperature"
    THEN ProcessTemperature(window, reading)
    ELSE ProcessMotion(window, reading)

\* the sensor types and the shapes a reading's value can have: a number (or
\* boolean), None, a string that is no number, an image array, a dict
SensorTypes == {"temperature", "motion", "camera", "accelerometer", "humidity"}
Shapes == {"number", "none", "text", "array", "map"}

\* features whose values the model does not compute
OpaqueFeatures(sid, names) == Experience(sid, [k \in 1..Len(names) |-> 0], names)

\* process_reading on a reading of type stype whose value has the given shape:
\* a feature record, None, or an exception; reading carries the value when it
\* is a number
ProcessShaped(stype, shape, window, reading) ==
    LET none == [window |-> window, result |-> "none", features |-> NoFeatures]
        raised == [window |-> window, result |-> "raised", features |-> NoFeatures]
        record(r) == [window |-> r.window, result |-> "record", features |-> r.features]
        opaque(names) ==
            [window |-> window, result |-> "record",
             features |-> OpaqueFeatures(reading.sensor_id, names)]
    IN  CASE stype = "temperature" ->
                \* value = float(reading.value)
                IF shape = "number" THEN record(ProcessTemperature(window, reading))
                ELSE raised
          [] stype = "motion" ->
                \* 1.0 if reading.value else 0.0
                IF shape = "number" THEN record(ProcessMotion(window, reading))
                ELSE IF shape = "array" THEN raised
                ELSE record(ProcessMotion(window,
                                [reading EXCEPT !.value = IF shape = "none" THEN 0 ELSE 1]))
          [] stype = "camera" ->
                IF shape = "array"
                THEN opaque(<<"brightness_r", "brightness_g", "brightness_b",
                              "brightness_overall", "contrast", "edge_density">>)
                ELSE none
          [] stype = "accelerometer" ->
                IF shape = "map"
                THEN opaque(<<"accel_x", "accel_y", "accel_z", "accel_magnitude">>)
                ELSE none
          [] OTHER ->
                IF shape = "number" THEN opaque(<<stype \o "_value">>)
                ELSE opaque(<<"unknown">>)

\* process_batch: [self.process_reading(r) for r in readings
\*                 if self.process_reading(r)]: the condition calls process_reading,
\* and for a result that is not None the element expression calls it again
RECURSIVE ProcessBatch(_, _)
ProcessBatch(windows, readings) ==
    IF readings = <<>> THEN [windows |-> windows, results |-> <<>>]
    ELSE LET r == Head(readings)
             sid == r.sensor_id
             tested == ProcessReading(windows[sid], r)
             kept == ProcessReading(tested.window, r)
             rest == ProcessBatch([windows EXCEPT ![sid] = kept.window], Tail(readings))
         IN  [windows |-> rest.windows, results |-> <<kept.features>> \o rest.results]

PreprocessUnchanged ==
    UNCHANGED <<learnerVars, feedVars, persistVars, is_active, last_motion, data_buffers,
                active_tasks, stop_event, tasks, cur, caller, shut, engineVars,
                callbackVars>>

\* the well-formed readings the registered sensors can deliver at time now
WellFormedAt(now) ==
    UNION {{SensorReading(sid, now, v, 0) : v \in ReadingValues(sid)} : sid \in SensorIds}

\* a process_reading call on a well-formed reading of a registered sensor
ProcessOne ==
    /\ clock < MaxProcessed
    /\ \E r \in WellFormedAt(clock + 1) :
          LET out == ProcessShaped(SensorType(r.sensor_id), "number",
                                   feature_windows[r.sensor_id], r)
          IN  /\ feature_windows' = [feature_windows EXCEPT ![r.sensor_id] = out.window]
              /\ last_call' = [op |-> "process", sensor |-> r.sensor_id,
                               stype |-> SensorType(r.sensor_id), shape |-> "number",
                               before |-> feature_windows, result |-> out.result,
                               features |-> out.features]
    /\ clock' = clock + 1
    /\ PreprocessUnchanged

\* a process_reading call on a reading of any type whose value has any shape but
\* a number (the windows of sA and sB are those of a temperature and a motion
\* sensor; the other types are separate sensors)
ProcessOddShape ==
    /\ clock < MaxProcessed
    /\ \E stype \in SensorTypes, shape \in Shapes \ {"number"} :
          LET sid == IF stype = "temperature" THEN "sA"
                     ELSE IF stype = "motion" THEN "sB" ELSE "other"
              window == IF sid \in SensorIds THEN feature_windows[sid] ELSE <<>>
              out == ProcessShaped(stype, shape, window,
                                   SensorReading(sid, clock + 1, 0, 0))
          IN  /\ feature_windows' = [s \in SensorIds |->
                                        IF s = sid THEN out.window ELSE feature_windows[s]]
              /\ last_call' = [op |-> "process", sensor |-> sid, stype |-> stype,
                               shape |-> shape, before |-> feature_windows,
                               result |-> out.result, features |-> out.features]
    /\ clock' = clock + 1
    /\ PreprocessUnchanged

\* a process_batch call on up to MaxBatch well-formed readings
ProcessBatchCall ==
    /\ \E n \in 1..MaxBatch :
          /\ clock + n <= MaxProcessed
          /\ \E picks \in [1..n -> WellFormedAt(0)] :
                LET readings == [k \in 1..n |-> [picks[k] EXCEPT !.timestamp = clock + k]]
                    out == ProcessBatch(feature_windows, readings)
                IN  /\ feature_windows' = out.windows
                    /\ last_call' = [op |-> "batch", readings |-> readings,
                                     before |-> feature_windows,
                                     results |-> out.results]
          /\ clock' = clock + n
    /\ PreprocessUnchanged

\* _stream_sensor's local state: where the coroutine stands, the reading it
\* holds, the features its callback computed, and (observation) whether a read
\* of it has failed and whether it has stored a reading since
NotChecked == [is_anomaly |-> FALSE, score |-> 0]

StreamTask(s) ==
    [sensor |-> s, pc |-> "start", reading |-> NoReading, features |-> NoFeatures,
     anomaly |-> NotChecked, failed |-> FALSE, recovered |-> FALSE]

\* the suspension points had _incremental_update awaited between its sub-updates
SuspensionPointsInsideUpdate == {"start", "sleep", "backoff", "thresholds"}

\* a loop that a failed read ends
ReadErrorEndsLoop == "done"

\* the awaits of _stream_sensor that give up the event loop: the task is created
\* but not yet started, asyncio.sleep(interval), asyncio.sleep(1.0)
SuspensionPoints == {"start", "sleep", "backoff"}

\* except Exception: print, await asyncio.sleep(1.0), and back to the loop test
AfterReadError == "backoff"

\* positions inside add_experience, after its append and before its return
InsideAddExperience == {"weights", "thresholds", "clusters", "count"}

TaskIds == 1..Len(tasks)

\* task i may take its next step: it holds the loop, or nobody does and it is
\* at an await whose wait is over
CanRun(i) ==
    /\ tasks[i].pc # "done"
    /\ \/ cur = i
       \/ cur = 0 /\ tasks[i].pc \in SuspensionPoints

\* task i moves to position pc with locals t, keeping the loop unless it
\* suspends or ends there
Move(i, t, pc) ==
    /\ tasks' = [tasks EXCEPT ![i] = [t EXCEPT !.pc = pc]]
    /\ cur' = IF pc \in SuspensionPoints \cup {"done"} THEN 0 ELSE i

managerVars == <<is_active, last_motion, data_buffers, active_tasks, stop_event>>
driverVars == <<caller, shut>>
otherVars == <<last_call, feedVars, ops, engineVars, callbackVars>>

\* a loop that goes on reading whatever the stop event says
LoopTestIgnoresStop(stop) == "read"

\* while not self._stop_event.is_set(): the loop ends once the event is set
AfterLoopTest(stop) == IF stop THEN "done" ELSE "read"

\* while not self._stop_event.is_set(): tested when the task starts and each
\* time it comes back from a sleep
LoopTest(i) ==
    /\ CanRun(i)
    /\ tasks[i].pc \in {"start", "sleep", "backoff"}
    /\ Move(i, tasks[i], AfterLoopTest(stop_event))
    /\ UNCHANGED <<learnerVars, managerVars, feature_windows, clock, driverVars,
                   otherVars, file, saved>>

\* a read that does not look at is_active
ReadableAlways(active) == TRUE

\* if not self.is_active: raise RuntimeError
Readable(active) == active

\* await sensor.read(), failing: RuntimeError of a sensor that is not active, or
\* an error of the hardware; the except clause of the loop takes it
ReadFails(i) ==
    /\ CanRun(i)
    /\ tasks[i].pc = "read"
    /\ Move(i, [tasks[i] EXCEPT !.failed = TRUE], AfterReadError)
    /\ UNCHANGED <<learnerVars, managerVars, feature_windows, clock, driverVars,
                   otherVars, file, saved>>

\* await sensor.read(), succeeding: the reading is built and handed to
\* _notify_callbacks
ReadSucceedsWithin(i, maxReads) ==
    /\ CanRun(i)
    /\ tasks[i].pc = "read"
    /\ Readable(is_active[tasks[i].sensor])
    /\ clock < maxReads
    /\ \E v \in ReadingValues(tasks[i].sensor) :
          LET s == tasks[i].sensor
              now == clock + 1
              lm == IF SensorType(s) = "motion" /\ v # 0 THEN now ELSE last_motion[s]
          IN  /\ clock' = now
              /\ last_motion' = [last_motion EXCEPT ![s] = lm]
              /\ Move(i, [tasks[i] EXCEPT !.reading = SensorReading(s, now, v, lm)],
                      "preprocess")
    /\ UNCHANGED <<learnerVars, is_active, data_buffers, active_tasks, stop_event,
                   feature_windows, driverVars, otherVars, file, saved>>

ReadSucceeds(i) == ReadSucceedsWithin(i, MaxReads)

\* _on_sensor_data: self.preprocessor.process_reading(reading)
Preprocess(i) ==
    /\ CanRun(i)
    /\ tasks[i].pc = "preprocess"
    /\ LET s == tasks[i].sensor
           r == ProcessReading(feature_windows[s], tasks[i].reading)
       IN  /\ feature_windows' = [feature_windows EXCEPT ![s] = r.window]
           /\ Move(i, [tasks[i] EXCEPT !.features = r.features], "detect")
    /\ UNCHANGED <<learnerVars, managerVars, clock, driverVars, otherVars, file, saved>>

\* a callback that does not add the readings it has flagged
FlaggedNotAdded(result) == IF result.is_anomaly THEN "store" ELSE "append"

\* _on_sensor_data after detect_anomaly: the warning is printed if is_anomaly,
\* and add_experience follows in either case
AfterDetect(result) == "append"

\* _on_sensor_data: is_anomaly, score = self.learner.detect_anomaly(features),
\* which reads the thresholds and changes nothing
DetectAnomaly(i) ==
    /\ CanRun(i)
    /\ tasks[i].pc = "detect"
    /\ LET result == DetectAnomalyResult(anomaly_thresholds, tasks[i].features)
       IN  Move(i, [tasks[i] EXCEPT !.anomaly = result], AfterDetect(result))
    /\ UNCHANGED <<learnerVars, managerVars, feature_windows, clock, driverVars,
                   otherVars, file, saved>>

\* add_experience up to its threshold test
AppendExperience(i) ==
    /\ CanRun(i)
    /\ tasks[i].pc = "append"
    /\ LET buf == DequeAppend(experience_buffer, tasks[i].features, memory_size)
       IN  /\ experience_buffer' = buf
           /\ total_samples' = total_samples + 1
           /\ Move(i, tasks[i],
                   IF PassRuns(Len(buf), update_threshold) THEN "weights" ELSE "store")
    /\ UNCHANGED <<memory_size, update_threshold, learnedVars, managerVars,
                   feature_windows, clock, driverVars, otherVars, file, saved>>

\* _incremental_update: self._update_feature_weights()
WeightsStep(i) ==
    /\ CanRun(i)
    /\ tasks[i].pc = "weights"
    /\ feature_weights' = UpdateFeatureWeights(feature_weights, PassInput(experience_buffer))
    /\ Move(i, tasks[i], "thresholds")
    /\ UNCHANGED <<memory_size, update_threshold, experience_buffer, anomaly_thresholds,
                   pattern_clusters, update_count, total_samples, managerVars,
                   feature_windows, clock, driverVars, otherVars, file, saved>>

\* _incremental_update: self._update_anomaly_thresholds()
ThresholdsStep(i) ==
    /\ CanRun(i)
    /\ tasks[i].pc = "thresholds"
    /\ anomaly_thresholds'
          = UpdateAnomalyThresholds(anomaly_thresholds, PassInput(experience_buffer))
    /\ Move(i, tasks[i], "clusters")
    /\ UNCHANGED <<memory_size, update_threshold, experience_buffer, feature_weights,
                   pattern_clusters, update_count, total_samples, managerVars,
                   feature_windows, clock, driverVars, otherVars, file, saved>>

\* _incremental_update: self._update_pattern_clusters(); its ValueError leaves
\* add_experience and the callback, and _notify_callbacks catches it
ClustersStep(i) ==
    /\ CanRun(i)
    /\ tasks[i].pc = "clusters"
    /\ \E r \in UpdatePatternClusters(pattern_clusters, PassInput(experience_buffer)) :
          /\ pattern_clusters' = r.clusters
          /\ Move(i, tasks[i], IF r.error THEN "store" ELSE "count")
    /\ UNCHANGED <<memory_size, update_threshold, experience_buffer, feature_weights,
                   anomaly_thresholds, update_count, total_samples, managerVars,
                   feature_windows, clock, driverVars, otherVars, file, saved>>

\* _incremental_update: self.update_count += 1
CountStep(i) ==
    /\ CanRun(i)
    /\ tasks[i].pc = "count"
    /\ update_count' = update_count + 1
    /\ Move(i, tasks[i], "store")
    /\ UNCHANGED <<memory_size, update_threshold, experience_buffer, feature_weights,
                   anomaly_thresholds, pattern_clusters, total_samples, managerVars,
                   feature_windows, clock, driverVars, otherVars, file, saved>>

\* read has returned: self.data_buffers[sensor.sensor_id].append(reading), then
\* await asyncio.sleep(interval)
StoreReading(i) ==
    /\ CanRun(i)
    /\ tasks[i].pc = "store"
    /\ LET s == tasks[i].sensor
       IN  data_buffers' = [data_buffers EXCEPT
                               ![s] = DequeAppend(@, tasks[i].reading, BufferSize)]
    /\ Move(i, [tasks[i] EXCEPT !.recovered = tasks[i].failed], "sleep")
    /\ UNCHANGED <<learnerVars, is_active, last_motion, active_tasks, stop_event,
                   feature_windows, clock, driverVars, otherVars, file, saved>>

\* the steps of the callback _on_sensor_data
OnSensorData(i) ==
    \/ Preprocess(i)
    \/ DetectAnomaly(i)
    \/ AppendExperience(i)
    \/ WeightsStep(i)
    \/ ThresholdsStep(i)
    \/ ClustersStep(i)
    \/ CountStep(i)

(***************************************************************************)
(* The code that drives the manager: initialize_all (which a caller may    *)
(* leave out), start_streaming, stop_streaming, shutdown_all, and the save *)
(* that EdgeAISystem.stop makes after shutdown_all.                        *)
(***************************************************************************)
NewCaller == [pc |-> "new", call |-> "none", pending |-> {}, stops |-> 0]

\* initialize_all: each sensor's initialize() sets is_active, or fails and
\* leaves it as it was
InitializeAll ==
    /\ cur = 0
    /\ caller.pc = "new"
    /\ \E ok \in SUBSET SensorIds :
          is_active' = [s \in SensorIds |-> is_active[s] \/ s \in ok]
    /\ caller' = [caller EXCEPT !.pc = "initialized"]
    /\ UNCHANGED <<learnerVars, last_motion, data_buffers, active_tasks, stop_event,
                   feature_windows, tasks, cur, clock, shut, otherVars, file, saved>>

\* what a sensor's initialize() can do: return True, return False, raise
InitOutcomes == {"true", "false", "raised"}

\* all(r is True for r in results if not isinstance(r, Exception))
InitializeAllSuccess(results) ==
    \A s \in SensorIds : results[s] # "raised" => results[s] = "true"

\* sum(r is True for r in results), the count that is printed
InitializedCount(results) == Cardinality({s \in SensorIds : results[s] = "true"})

\* initialize_all with what its gather collected and what it returns
InitializeAllReturns ==
    /\ cur = 0
    /\ caller.pc = "new"
    /\ \E results \in [SensorIds -> InitOutcomes] :
          /\ is_active' = [s \in SensorIds |-> is_active[s] \/ results[s] = "true"]
          /\ last_call' = [op |-> "initialize_all", results |-> results,
                           success |-> InitializeAllSuccess(results),
                           count |-> InitializedCount(results)]
    /\ caller' = [caller EXCEPT !.pc = "initialized"]
    /\ UNCHANGED <<learnerVars, last_motion, data_buffers, active_tasks, stop_event,
                   feature_windows, tasks, cur, clock, shut, feedVars, ops, engineVars,
                   callbackVars, file, saved>>

\* start_streaming: the stop event is cleared and one _stream_sensor task is
\* created for each registered sensor
StartStreaming ==
    /\ cur = 0
    /\ caller.pc \in {"new", "initialized"}
    /\ stop_event' = FALSE
    /\ tasks' = tasks \o [k \in 1..Len(Registered) |-> StreamTask(Registered[k])]
    /\ active_tasks' = active_tasks \o [k \in 1..Len(Registered) |-> Len(tasks) + k]
    /\ caller' = [caller EXCEPT !.pc = "streaming"]
    /\ UNCHANGED <<learnerVars, is_active, last_motion, data_buffers, feature_windows,
                   cur, clock, shut, otherVars, file, saved>>

\* start_streaming called again, while the loops of an earlier call run or after
\* they were stopped or the sensors shut down: the same code, with no test of
\* what is already streaming
StartStreamingAgain ==
    /\ cur = 0
    /\ caller.pc \in {"streaming", "idle", "stopped"}
    /\ Len(tasks) < MaxStarts * Len(Registered)
    /\ stop_event' = FALSE
    /\ tasks' = tasks \o [k \in 1..Len(Registered) |-> StreamTask(Registered[k])]
    /\ active_tasks' = active_tasks \o [k \in 1..Len(Registered) |-> Len(tasks) + k]
    /\ caller' = [caller EXCEPT !.pc = "streaming"]
    /\ UNCHANGED <<learnerVars, is_active, last_motion, data_buffers, feature_windows,
                   cur, clock, shut, otherVars, file, saved>>

\* a stop_streaming that does not wait for its tasks
JoinedWithoutWaiting(ts, ids) == TRUE

\* asyncio.gather(*self._active_tasks) has every task's result
Joined(ts, ids) == \A k \in 1..Len(ids) : ts[ids[k]].pc = "done"

\* where stop_streaming returns to: its caller, or shutdown_all, which goes on
\* to gather the sensors' shutdown()
AfterStopStreaming(c) ==
    IF c.call = "stop_streaming"
    THEN [c EXCEPT !.pc = "idle"]
    ELSE [c EXCEPT !.pc = "shutting", !.pending = SensorIds]

\* stop_streaming, called directly or by shutdown_all: the stop event is set;
\* with tasks in the list it awaits them, with none it returns at once
BeginStop(call) ==
    /\ cur = 0
    /\ caller.pc \in {"streaming", "idle", "stopped"}
    /\ caller.pc = "idle" => call = "shutdown_all"
    /\ caller.stops < MaxStops
    /\ stop_event' = TRUE
    /\ LET c == [caller EXCEPT !.call = call, !.stops = @ + 1]
       IN  caller' = IF active_tasks # <<>>
                     THEN [c EXCEPT !.pc = "joining"]
                     ELSE AfterStopStreaming(c)
    /\ UNCHANGED <<learnerVars, is_active, last_motion, data_buffers, active_tasks,
                   feature_windows, tasks, cur, clock, shut, otherVars, file, saved>>

StopStreaming == BeginStop("stop_streaming")
ShutdownAll == BeginStop("shutdown_all")

\* stop_streaming after its gather: self._active_tasks.clear()
JoinTasks ==
    /\ cur = 0
    /\ caller.pc = "joining"
    /\ Joined(tasks, active_tasks)
    /\ active_tasks' = <<>>
    /\ caller' = AfterStopStreaming(caller)
    /\ UNCHANGED <<learnerVars, is_active, last_motion, data_buffers, stop_event,
                   feature_windows, tasks, cur, clock, shut, otherVars, file, saved>>

\* the sensors whose shutdown() coroutine runs next: gather starts them in
\* registration order
NextPending(pending) ==
    LET idx == {k \in 1..Len(Registered) : Registered[k] \in pending}
    IN  Registered[CHOOSE k \in idx : \A m \in idx : k <= m]

\* sensor.shutdown()
ShutdownSensor ==
    /\ cur = 0
    /\ caller.pc = "shutting"
    /\ caller.pending # {}
    /\ LET s == NextPending(caller.pending)
       IN  /\ is_active' = [is_active EXCEPT ![s] = FALSE]
           /\ shut' = shut \cup {s}
           /\ caller' = [caller EXCEPT !.pending = @ \ {s}]
    /\ UNCHANGED <<learnerVars, last_motion, data_buffers, active_tasks, stop_event,
                   feature_windows, tasks, cur, clock, otherVars, file, saved>>

\* shutdown_all has returned to EdgeAISystem.stop:
\* self.learner.save_learned_parameters("learned_params.json")
SaveOnStop ==
    /\ cur = 0
    /\ caller.pc = "shutting"
    /\ caller.pending = {}
    /\ file' = [exists |-> TRUE, doc |-> SavedRecord(Learned), absent |-> {}, bad |-> {}]
    /\ saved' = [intact |-> TRUE, state |-> Learned]
    /\ caller' = [caller EXCEPT !.pc = "stopped"]
    /\ UNCHANGED <<learnerVars, managerVars, feature_windows, tasks, cur, clock, shut,
                   otherVars>>

(***************************************************************************)
(* EdgeSLMInference: the context rendered from the buffers, run_inference   *)
(* with its fallback, and the continuous_monitoring loop.                  *)
(***************************************************************************)
\* get_recent_data: list(buffer)[-n:]
RecentData(buf, n) ==
    IF n = 0 \/ Len(buf) <= n THEN buf ELSE SubSeq(buf, Len(buf) - n + 1, Len(buf))

\* the lines a temperature sensor contributes: its latest value and, from three
\* readings on, a trend part of its own
TemperatureLines(s, readings) ==
    LET latest == readings[Len(readings)]
        first == readings[Len(readings) - TrendSpan + 1]
        trend == IF Len(readings) < TrendSpan THEN <<>>
                 ELSE IF latest.value > first.value + Unit \div 2
                      THEN <<[kind |-> "trend", text |-> "increasing"]>>
                 ELSE IF latest.value < first.value - Unit \div 2
                      THEN <<[kind |-> "trend", text |-> "decreasing"]>>
                 ELSE <<>>
    IN  <<[kind |-> "temperature", sensor |-> s, value |-> latest.value]>> \o trend

\* the line of a motion sensor: motion detected, or the whole seconds since the
\* last motion if there was one
MotionLines(s, readings) ==
    LET latest == readings[Len(readings)]
    IN  IF latest.value # 0 THEN <<[kind |-> "motion", sensor |-> s]>>
        ELSE IF latest.last_motion # 0
             THEN <<[kind |-> "no_motion", sensor |-> s,
                     elapsed |-> latest.timestamp - latest.last_motion]>>
             ELSE <<>>

\* run_inference's sensor_data: the recent readings of the sensors that have any
SensorData(buffers) ==
    SelectSeq(Registered, LAMBDA s : RecentData(buffers[s], RecentCount) # <<>>)

\* create_sensor_context: the context parts, later joined by newlines
RECURSIVE ContextParts(_, _)
ContextParts(sids, buffers) ==
    IF sids = <<>> THEN <<>>
    ELSE LET s == Head(sids)
             readings == RecentData(buffers[s], RecentCount)
             here == IF SensorType(s) = "temperature"
                     THEN TemperatureLines(s, readings)
                     ELSE MotionLines(s, readings)
         IN  here \o ContextParts(Tail(sids), buffers)

CreateSensorContext(buffers) == ContextParts(SensorData(buffers), buffers)

\* the decimal digits of n hold "60"
RECURSIVE HoldsQuietMark(_)
HoldsQuietMark(n) ==
    n % 100 = QuietMark \/ (n >= 100 /\ HoldsQuietMark(n \div 10))

\* word in line, for the words _simulate_response looks for
InLine(word, line) ==
    CASE line.kind = "temperature" -> word = "Temperature"
      [] line.kind = "trend" -> word = line.text
      [] line.kind = "motion" -> word = "Motion detected"
      [] line.kind = "no_motion" ->
            word = "No motion" \/ (word = "60" /\ HoldsQuietMark(line.elapsed))
      [] OTHER -> FALSE

\* the insight of one line of the context, if any
LineInsight(line) ==
    IF InLine("Temperature", line) /\ InLine("increasing", line) THEN <<"rising">>
    ELSE IF InLine("Motion detected", line) THEN <<"activity">>
    ELSE IF InLine("No motion", line) /\ InLine("60", line) THEN <<"quiet">>
    ELSE <<>>

RECURSIVE Insights(_)
Insights(context) ==
    IF context = <<>> THEN <<>>
    ELSE LineInsight(Head(context)) \o Insights(Tail(context))

\* _simulate_response
SimulateResponse(context) ==
    [kind |-> "summary",
     insights |-> IF Insights(context) = <<>> THEN <<"normal">> ELSE Insights(context)]

NoData == [kind |-> "no_data", insights |-> <<>>]
Generated == [kind |-> "model", insights |-> <<>>]
Raised == [kind |-> "raised", insights |-> <<>>]
NoResponse == [kind |-> "none", insights |-> <<>>]

\* a model error that is left to the caller of run_inference
ModelErrorPropagates(context) == Raised

\* except Exception: return self._simulate_response(sensor_context, query)
OnModelError(context) == SimulateResponse(context)

\* a history that keeps its first max_context entries and drops the new ones
RememberOldest(memory, entry) ==
    IF Len(memory) >= MaxContext THEN memory ELSE Append(memory, entry)

\* self.context_memory.append(...), cut to the last max_context entries
Remember(memory, entry) ==
    LET all == Append(memory, entry)
    IN  IF Len(all) > MaxContext THEN SubSeq(all, Len(all) - MaxContext + 1, Len(all))
        ELSE all

\* the outcomes of run_inference on the buffers: its return value and the
\* context_memory it leaves; called says whether the model was called and
\* failed says whether that call raised; now is time.time() at the append
InferenceOutcomes(buffers, loaded, memory, now) ==
    LET context == CreateSensorContext(buffers)
    IN  IF SensorData(buffers) = <<>>
        THEN {[response |-> NoData, memory |-> memory, built |-> FALSE,
               context |-> <<>>, failed |-> FALSE]}
        ELSE IF loaded
        THEN {[response |-> Generated,
               memory |-> Remember(memory, [timestamp |-> now,
                                            sensor_context |-> context,
                                            response |-> Generated]),
               built |-> TRUE, context |-> context, failed |-> FALSE],
              [response |-> OnModelError(context), memory |-> memory, built |-> TRUE,
               context |-> context, failed |-> TRUE]}
        ELSE {[response |-> SimulateResponse(context), memory |-> memory,
               built |-> TRUE, context |-> context, failed |-> FALSE]}

\* the continuous_monitoring task: where it is, the iterations begun, the
\* run_inference calls of this iteration and those now running, the last
\* outcome, the results handed to the callback, whether the callback has raised
\* and whether a result was handed over after that
NewMonitor(callback) ==
    [pc |-> "loop", callback |-> callback, tick |-> 0, calls |-> 0, in_flight |-> 0,
     outcome |-> [response |-> NoResponse, built |-> FALSE, context |-> <<>>,
                  failed |-> FALSE],
     delivered |-> 0, callback_failed |-> FALSE, recovered |-> FALSE]

\* EdgeSLMInference.__init__
EngineInit(loaded, callback) ==
    /\ model = IF loaded THEN "loaded" ELSE "none"
    /\ context_memory = <<>>
    /\ monitor = NewMonitor(callback)

\* a timer that starts an inference call whatever the previous one is doing
CallsOnTimer(mon) == mon.pc \in {"call", "inference", "callback"}

\* the loop calls run_inference only at the head of an iteration
CallsInLoop(mon) == mon.pc = "call"

\* a callback error that ends the loop
CallbackErrorEndsLoop == "done"

\* except Exception: print, await asyncio.sleep(interval)
AfterCallbackError == "error_sleep"

MonitorSuspended == {"callback", "sleep", "error_sleep"}

\* while True:
LoopIteration ==
    /\ monitor.pc = "loop"
    /\ monitor.tick < MaxTicks
    /\ monitor' = [monitor EXCEPT !.pc = "call", !.tick = @ + 1, !.calls = 0]
    /\ UNCHANGED <<learnerVars, last_call, feedVars, persistVars, is_active, last_motion,
                   data_buffers, active_tasks, stop_event, feature_windows, tasks, cur,
                   clock, caller, shut, callbackVars, model, context_memory>>

\* response = await self.run_inference(): the call begins
RunInferenceBegins ==
    /\ CallsInLoop(monitor)
    /\ monitor' = [monitor EXCEPT !.pc = "inference", !.calls = @ + 1,
                                  !.in_flight = @ + 1]
    /\ UNCHANGED <<learnerVars, last_call, feedVars, persistVars, is_active, last_motion,
                   data_buffers, active_tasks, stop_event, feature_windows, tasks, cur,
                   clock, caller, shut, callbackVars, model, context_memory>>

\* ... and returns
RunInferenceReturns ==
    /\ monitor.pc = "inference"
    /\ \E out \in InferenceOutcomes(data_buffers, model = "loaded", context_memory,
                                      clock + monitor.tick) :
          /\ context_memory' = out.memory
          /\ monitor' = [monitor EXCEPT
                            !.pc = IF out.response = Raised
                                   THEN "error_sleep" ELSE "result",
                            !.in_flight = @ - 1,
                            !.outcome = [response |-> out.response, built |-> out.built,
                                         context |-> out.context, failed |-> out.failed]]
    /\ UNCHANGED <<learnerVars, last_call, feedVars, persistVars, is_active, last_motion,
                   data_buffers, active_tasks, stop_event, feature_windows, tasks, cur,
                   clock, caller, shut, callbackVars, model>>

\* if callback: await callback(result)
CallbackBegins ==
    /\ monitor.pc = "result"
    /\ monitor' = IF monitor.callback
                  THEN [monitor EXCEPT !.pc = "callback", !.delivered = @ + 1,
                                       !.recovered = @ \/ monitor.callback_failed]
                  ELSE [monitor EXCEPT !.pc = "sleep"]
    /\ UNCHANGED <<learnerVars, last_call, feedVars, persistVars, is_active, last_motion,
                   data_buffers, active_tasks, stop_event, feature_windows, tasks, cur,
                   clock, caller, shut, callbackVars, model, context_memory>>

\* the callback returns, or raises into the loop's except clause
CallbackEnds ==
    /\ monitor.pc = "callback"
    /\ \E ok \in BOOLEAN :
          monitor' = IF ok THEN [monitor EXCEPT !.pc = "sleep"]
                     ELSE [monitor EXCEPT !.pc = AfterCallbackError,
                                          !.callback_failed = TRUE]
    /\ UNCHANGED <<learnerVars, last_call, feedVars, persistVars, is_active, last_motion,
                   data_buffers, active_tasks, stop_event, feature_windows, tasks, cur,
                   clock, caller, shut, callbackVars, model, context_memory>>

\* await asyncio.sleep(interval) is over
MonitorWakes ==
    /\ monitor.pc \in {"sleep", "error_sleep"}
    /\ monitor' = [monitor EXCEPT !.pc = "loop"]
    /\ UNCHANGED <<learnerVars, last_call, feedVars, persistVars, is_active, last_motion,
                   data_buffers, active_tasks, stop_event, feature_windows, tasks, cur,
                   clock, caller, shut, callbackVars, model, context_memory>>

\* task.cancel(): CancelledError is raised at the await the task is suspended
\* at; it is not an Exception, so the loop's except clause lets it through
CancelMonitor ==
    /\ monitor.pc \in MonitorSuspended
    /\ monitor' = [monitor EXCEPT !.pc = "cancelled"]
    /\ UNCHANGED <<learnerVars, last_call, feedVars, persistVars, is_active, last_motion,
                   data_buffers, active_tasks, stop_event, feature_windows, tasks, cur,
                   clock, caller, shut, callbackVars, model, context_memory>>

(***************************************************************************)
(* A sensor with several registered callbacks, sampled by its loop:        *)
(* _stream_sensor, read and _notify_callbacks.                             *)
(***************************************************************************)
NotifySensor == "sA"

NewNotify ==
    [pc |-> "start", reading |-> NoReading, next |-> 1, invoked |-> <<>>, raised |-> {},
     returned |-> FALSE]

\* a callback error that leaves _notify_callbacks
SkipsRestOnError(k, ok) == IF ok THEN k + 1 ELSE NumCallbacks + 1

\* for callback in self._callbacks: try: ... except Exception: print
NextCallback(k, ok) == k + 1

NotifyUnchanged ==
    UNCHANGED <<learnerVars, last_call, feedVars, persistVars, is_active, active_tasks,
                stop_event, feature_windows, tasks, cur, caller, shut, engineVars>>

\* while not self._stop_event.is_set():
NotifyLoopTest ==
    /\ notify.pc \in {"start", "sleep", "backoff"}
    /\ clock < MaxNotifyReads
    /\ notify' = [notify EXCEPT !.pc = "read"]
    /\ UNCHANGED <<data_buffers, last_motion, clock>>
    /\ NotifyUnchanged

\* await sensor.read() up to the call of _notify_callbacks, or raising
SensorRead ==
    /\ notify.pc = "read"
    /\ clock' = clock + 1
    /\ IF Readable(is_active[NotifySensor])
       THEN \E v \in ReadingValues(NotifySensor) :
               notify' = [notify EXCEPT !.pc = "notify", !.next = 1, !.invoked = <<>>,
                                        !.raised = {}, !.returned = FALSE,
                                        !.reading = SensorReading(NotifySensor, clock + 1,
                                                                  v, 0)]
       ELSE notify' = [notify EXCEPT !.pc = AfterReadError]
    /\ UNCHANGED <<data_buffers, last_motion>>
    /\ NotifyUnchanged

\* one iteration of the loop over self._callbacks: the callback returns or raises
CallbackInvoked ==
    /\ notify.pc = "notify"
    /\ notify.next <= NumCallbacks
    /\ \E ok \in BOOLEAN :
          notify' = [notify EXCEPT !.invoked = Append(@, notify.next),
                                   !.raised = IF ok THEN @ ELSE @ \cup {notify.next},
                                   !.next = NextCallback(notify.next, ok)]
    /\ UNCHANGED <<data_buffers, last_motion, clock>>
    /\ NotifyUnchanged

\* _notify_callbacks is through: return reading
ReadReturns ==
    /\ notify.pc = "notify"
    /\ notify.next > NumCallbacks
    /\ notify' = [notify EXCEPT !.pc = "store", !.returned = TRUE]
    /\ UNCHANGED <<data_buffers, last_motion, clock>>
    /\ NotifyUnchanged

\* self.data_buffers[sensor.sensor_id].append(reading); await asyncio.sleep
StoreNotified ==
    /\ notify.pc = "store"
    /\ data_buffers' = [data_buffers EXCEPT
                           ![NotifySensor] = DequeAppend(@, notify.reading, BufferSize)]
    /\ notify' = [notify EXCEPT !.pc = "sleep"]
    /\ UNCHANGED <<last_motion, clock>>
    /\ NotifyUnchanged

\* SensorManager(buffer_size), SensorPreprocessor(window_size) and the sensors
\* after setup_sensors
StreamInit ==
    /\ is_active = [s \in SensorIds |-> FALSE]
    /\ last_motion = [s \in SensorIds |-> 0]
    /\ data_buffers = [s \in SensorIds |-> <<>>]
    /\ active_tasks = <<>>
    /\ stop_event = FALSE
    /\ feature_windows = [s \in SensorIds |-> <<>>]
    /\ tasks = <<>>
    /\ cur = 0
    /\ clock = 0
    /\ caller = NewCaller
    /\ shut = {}
    /\ EngineInit(FALSE, FALSE)
    /\ notify = NewNotify

(***************************************************************************)
(* SensorManager's query surface: get_recent_data and get_sensor_stats on  *)
(* the buffers the sampling loops append to.                               *)
(***************************************************************************)
Unregistered == "none"

\* get_recent_data
GetRecentData(buffers, sid, n) ==
    IF sid \notin DOMAIN buffers THEN <<>> ELSE RecentData(buffers[sid], n)

\* statistics over everything the buffer holds
StoredReadings(buffers, sid) ==
    IF sid \notin DOMAIN buffers THEN <<>> ELSE buffers[sid]

\* readings = self.get_recent_data(sensor_id, n=100)
StatsReadings(buffers, sid) == GetRecentData(buffers, sid, StatsCount)

EmptyStats == [kind |-> "empty"]

\* the statistics of a sequence of readings, all of numeric value
StatsOf(readings) ==
    LET values == [k \in 1..Len(readings) |-> readings[k].value]
    IN  [kind |-> "stats", count |-> Len(readings), mean |-> ColMean(values),
         std |-> ColStd(values), min |-> SeqMin(values), max |-> SeqMax(values),
         latest |-> readings[Len(readings)].value]

\* get_sensor_stats (the readings of sA and sB are numbers and booleans, which
\* the isinstance test keeps)
GetSensorStats(buffers, sid) ==
    LET readings == StatsReadings(buffers, sid)
    IN  IF readings = <<>> THEN EmptyStats ELSE StatsOf(readings)

QueryUnchanged ==
    UNCHANGED <<learnerVars, feedVars, persistVars, is_active, last_motion, active_tasks,
                stop_event, feature_windows, tasks, cur, caller, shut, engineVars,
                callbackVars>>

\* self.data_buffers[sensor_id].append(reading) on a deque(maxlen=buffer_size)
QueryStore ==
    /\ clock < MaxStored
    /\ \E r \in WellFormedAt(clock + 1) :
          /\ data_buffers' = [data_buffers EXCEPT
                                 ![r.sensor_id] = DequeAppend(@, r, QueryBufferSize)]
          /\ last_call' = [op |-> "append", sensor |-> r.sensor_id]
    /\ clock' = clock + 1
    /\ QueryUnchanged

\* a get_recent_data call
AskRecentData ==
    /\ \E sid \in SensorIds \cup {Unregistered}, n \in 0..QueryBufferSize + 1 :
          last_call' = [op |-> "recent", sensor |-> sid, n |-> n,
                        result |-> GetRecentData(data_buffers, sid, n)]
    /\ UNCHANGED <<data_buffers, clock>>
    /\ QueryUnchanged

\* a get_sensor_stats call
AskSensorStats ==
    /\ \E sid \in SensorIds \cup {Unregistered} :
          last_call' = [op |-> "stats", sensor |-> sid,
                        result |-> GetSensorStats(data_buffers, sid)]
    /\ UNCHANGED <<data_buffers, clock>>
    /\ QueryUnchanged

(***************************************************************************)
(* Specifications.                                                         *)
(***************************************************************************)
\* SpecLearner: short feeds whose values alternate from call to call
FeedAlternating == Feed(SensorIds, FedLengths, {adds % 2}, MaxAdds, MaxRuns)

\* no parameter file yet
NoFile == file = NoSuchFile /\ saved = NothingSaved /\ ops = 0

InitLearner ==
    /\ \E threshold \in 1..UpdateThreshold : LearnerInit(MemorySize, threshold)
    /\ last_call = NoCall
    /\ adds = 0
    /\ runs = 1
    /\ NoFile
    /\ StreamInit

NextLearner == FeedAlternating /\ UNCHANGED <<persistVars, streamVars>>

SpecLearner == InitLearner /\ [][NextLearner]_vars

\* SpecCluster: short feeds whose values rise from call to call, so that the
\* buffered vectors of a sensor are all different
FeedRising == Feed(SensorIds, {2}, {adds}, MaxAdds, 2)

NextCluster == FeedRising /\ UNCHANGED <<persistVars, streamVars>>

SpecCluster == InitLearner /\ [][NextCluster]_vars

\* SpecCount: fresh learners of every small memory_size and update_threshold,
\* the threshold above the memory size included, fed vectors of one length
FeedOneLength == Feed(SensorIds, {2}, {adds % 2}, CountAdds, 3)

InitCount ==
    /\ \E memory \in 1..CountMemory, threshold \in 0..(CountMemory + 1) :
          LearnerInit(memory, threshold)
    /\ last_call = NoCall
    /\ adds = 0
    /\ runs = 1
    /\ NoFile
    /\ StreamInit

NextCount == FeedOneLength /\ UNCHANGED <<persistVars, streamVars>>

SpecCount == InitCount /\ [][NextCount]_vars

\* SpecDrift: long feeds of one constant value, long enough for a sensor's old
\* vectors to be evicted from the buffer
FeedConstant == Feed(SensorIds, FedLengths, {1}, DriftMaxAdds, DriftMaxRuns)

InitDrift ==
    /\ LearnerInit(DriftMemorySize, UpdateThreshold)
    /\ last_call = NoCall
    /\ adds = 0
    /\ runs = 1
    /\ NoFile
    /\ StreamInit

NextDrift == FeedConstant /\ UNCHANGED <<persistVars, streamVars>>

SpecDrift == InitDrift /\ [][NextDrift]_vars

\* SpecQuery: readings stored in the buffers and the queries on them
NextQuery == QueryStore \/ AskRecentData \/ AskSensorStats

SpecQuery == InitDrift /\ [][NextQuery]_vars

\* SpecPersist: one sensor fed, with saves, loads, restarts and file damage
\* a learner that took in a malformed value is not fed further
WellFormedLearner ==
    feature_weights # BadWeights /\ update_count # BadCount /\ total_samples # BadCount

FeedPersist ==
    /\ WellFormedLearner
    /\ Feed({"sA"}, {2}, {adds % 2}, PersistMaxAdds, 1)
    /\ UNCHANGED <<persistVars, streamVars>>

InitPersist ==
    /\ LearnerInit(MemorySize, UpdateThreshold)
    /\ last_call = NoCall
    /\ adds = 0
    /\ runs = 1
    /\ NoFile
    /\ StreamInit

NextPersist ==
    \/ FeedPersist
    \/ SaveLearnedParameters
    \/ LoadLearnedParameters
    \/ RestartLearner

SpecPersist == InitPersist /\ [][NextPersist]_vars

\* SpecSave: one sensor fed, with saves that run step by step and can fail
\* (save_learned_parameters has no await: nothing else runs during a save)
NextSave ==
    \/ ~Saving /\ FeedPersist
    \/ SaveOpens
    \/ SaveWrites
    \/ SaveCloses
    \/ SaveInterrupted

SpecSave == InitPersist /\ [][NextSave]_vars

\* SpecScore: one sensor fed two-feature vectors of the values 0 and 1 in any
\* order, and detect_anomaly calls on records near and far from them
FeedFree ==
    /\ Feed({"sA"}, {2}, {0, 1}, PersistMaxAdds, 1)
    /\ UNCHANGED <<persistVars, streamVars>>

FarValue == 10 * Unit

NextScore ==
    \/ FeedFree
    \/ DetectVector({"sA"}, {0 - FarValue, 0, FarValue}, {0, FarValue})

SpecScore == InitPersist /\ [][NextScore]_vars

\* SpecFrame: one sensor fed, with saves, loads of the file as it was saved, and
\* the learner's read-only operations
NextFrame ==
    \/ FeedPersist
    \/ SaveLearnedParameters
    \/ LoadLearnedParameters /\ last_call'.complete
    \/ WellFormedLearner /\ DetectCall({"sA"}, {1})
    \/ WellFormedLearner /\ PredictCall({"sA"}, {2, 3}, {1})
    \/ ImportanceCall({"sA"})
    \/ WellFormedLearner /\ SummaryCall

SpecFrame == InitPersist /\ [][NextFrame]_vars

\* Spec: the sensors streaming into the preprocessor and the learner, driven
\* from start to stop
Init ==
    /\ LearnerInit(MemorySize, UpdateThreshold)
    /\ last_call = NoCall
    /\ adds = 0
    /\ runs = 1
    /\ NoFile
    /\ StreamInit

Next ==
    \/ InitializeAll
    \/ StartStreaming
    \/ StopStreaming
    \/ ShutdownAll
    \/ JoinTasks
    \/ ShutdownSensor
    \/ SaveOnStop
    \/ \E i \in TaskIds :
          \/ LoopTest(i)
          \/ ReadFails(i)
          \/ ReadSucceeds(i)
          \/ OnSensorData(i)
          \/ StoreReading(i)

Spec == Init /\ [][Next]_vars


\* SpecDetect: one sensor fed a single feature, either one constant value or
\* two values in alternation, with detect_anomaly calls in between
ScenarioValues == {0, ScenarioLow, ScenarioHigh}
ProbeValues == ScenarioValues \cup {ScenarioProbe}

FedValue(e) == e.features[1] \div Unit
ConstantFeed(buf) == \A k \in 1..Len(buf) : buf[k] = buf[1]
AlternatingFeed(buf) ==
    /\ \A k \in 1..Len(buf) : FedValue(buf[k]) \in {ScenarioLow, ScenarioHigh}
    /\ \A k \in 1..(Len(buf) - 1) : buf[k] # buf[k + 1]

\* the values the feed can go on with
NextValues(buf) ==
    IF buf = <<>> THEN ScenarioValues
    ELSE LET last == FedValue(buf[Len(buf)])
         IN  (IF ConstantFeed(buf) THEN {last} ELSE {})
             \cup (IF AlternatingFeed(buf)
                   THEN {ScenarioLow + ScenarioHigh - last}
                   ELSE {})

FeedScenario ==
    /\ Feed({"sA"}, {1}, NextValues(experience_buffer), ScenarioAdds, 1)
    /\ UNCHANGED <<persistVars, streamVars>>

DetectProbe == DetectCall(SensorIds, ProbeValues)

InitDetect ==
    /\ \E threshold \in {UpdateThreshold, ScenarioThreshold} :
          LearnerInit(ScenarioAdds, threshold)
    /\ last_call = NoCall
    /\ adds = 0
    /\ runs = 1
    /\ NoFile
    /\ StreamInit

NextDetect ==
    \/ FeedScenario
    \/ DetectProbe

SpecDetect == InitDetect /\ [][NextDetect]_vars

\* SpecMonitor: the monitoring loop over buffers that hold some history
TemperatureHistories ==
    UNION {[1..n -> ReadingValues("sA")] : n \in 0..MaxHistory}
MotionTime == QuietMark + MaxHistory
MotionReadings ==
    {SensorReading("sB", MotionTime, v, lm) :
        v \in ReadingValues("sB"), lm \in {0, MaxHistory, MaxHistory + QuietMark \div 2}}
MotionHistories == {<<>>} \cup {<<r>> : r \in MotionReadings}

InitMonitor ==
    /\ LearnerInit(MemorySize, UpdateThreshold)
    /\ last_call = NoCall
    /\ adds = 0
    /\ runs = 1
    /\ NoFile
    /\ is_active = [s \in SensorIds |-> TRUE]
    /\ last_motion = [s \in SensorIds |-> 0]
    /\ \E temps \in TemperatureHistories, motions \in MotionHistories :
          data_buffers = [s \in SensorIds |->
                            IF s = "sA"
                            THEN [k \in 1..Len(temps) |-> SensorReading("sA", k, temps[k], 0)]
                            ELSE motions]
    /\ active_tasks = <<>>
    /\ stop_event = FALSE
    /\ feature_windows = [s \in SensorIds |-> <<>>]
    /\ tasks = <<>>
    /\ cur = 0
    /\ clock = MotionTime
    /\ caller = NewCaller
    /\ shut = {}
    /\ \E loaded \in BOOLEAN, callback \in BOOLEAN : EngineInit(loaded, callback)
    /\ notify = NewNotify

NextMonitor ==
    \/ LoopIteration
    \/ RunInferenceBegins
    \/ RunInferenceReturns
    \/ CallbackBegins
    \/ CallbackEnds
    \/ MonitorWakes
    \/ CancelMonitor

SpecMonitor == InitMonitor /\ [][NextMonitor]_vars

\* SpecMonitorFair: as SpecMonitor; a sleep that is not cancelled ends, and the
\* loop then goes on
SpecMonitorFair ==
    SpecMonitor /\ WF_vars(MonitorWakes) /\ WF_vars(LoopIteration)

\* SpecNotify: one sensor, active or not, with NumCallbacks callbacks
InitNotify ==
    /\ LearnerInit(MemorySize, UpdateThreshold)
    /\ last_call = NoCall
    /\ adds = 0
    /\ runs = 1
    /\ NoFile
    /\ \E active \in BOOLEAN : is_active = [s \in SensorIds |-> active /\ s = NotifySensor]
    /\ last_motion = [s \in SensorIds |-> 0]
    /\ data_buffers = [s \in SensorIds |-> <<>>]
    /\ active_tasks = <<>>
    /\ stop_event = FALSE
    /\ feature_windows = [s \in SensorIds |-> <<>>]
    /\ tasks = <<>>
    /\ cur = 0
    /\ clock = 0
    /\ caller = NewCaller
    /\ shut = {}
    /\ EngineInit(FALSE, FALSE)
    /\ notify = NewNotify

NextNotify ==
    \/ NotifyLoopTest
    \/ SensorRead
    \/ CallbackInvoked
    \/ ReadReturns
    \/ StoreNotified

SpecNotify == InitNotify /\ [][NextNotify]_vars

\* SpecPreprocess: the preprocessor called reading by reading and by batch
NextPreprocess ==
    \/ ProcessOne
    \/ ProcessOddShape
    \/ ProcessBatchCall

SpecPreprocess == Init /\ [][NextPreprocess]_vars

\* SpecManager: as Spec, with a caller that may call start_streaming again
NextManager ==
    \/ InitializeAll
    \/ StartStreaming
    \/ StartStreamingAgain
    \/ StopStreaming
    \/ ShutdownAll
    \/ JoinTasks
    \/ ShutdownSensor
    \/ SaveOnStop
    \/ \E i \in TaskIds :
          \/ LoopTest(i)
          \/ ReadFails(i)
          \/ (clock < ManagerMaxReads /\ ReadSucceeds(i))
          \/ OnSensorData(i)
          \/ StoreReading(i)

SpecManager == Init /\ [][NextManager]_vars

\* SpecStop: as Spec with fewer reads; a task that can take its next step takes
\* it, and a gather whose tasks have all ended returns
TaskStep(i) ==
    /\ i \in TaskIds
    /\ \/ LoopTest(i)
       \/ ReadFails(i)
       \/ (clock < StopMaxReads /\ ReadSucceeds(i))
       \/ OnSensorData(i)
       \/ StoreReading(i)

NextStop ==
    \/ InitializeAll
    \/ StartStreaming
    \/ StopStreaming
    \/ ShutdownAll
    \/ JoinTasks
    \/ ShutdownSensor
    \/ SaveOnStop
    \/ \E i \in TaskIds : TaskStep(i)

SpecStop ==
    /\ Init /\ [][NextStop]_vars
    /\ \A i \in 1..Len(Registered) : WF_vars(TaskStep(i))
    /\ WF_vars(JoinTasks)

\* SpecOnData: only the temperature sensor comes up, and it is read often
\* enough for thresholds to be learned from its readings and met by later ones
\* the first SteadyReads readings are of one temperature
SteadyAtFirst(reading) ==
    reading.timestamp <= SteadyReads => reading.value = TempMean * Unit - Unit \div 2

OnlyTemperatureUp ==
    InitializeAll /\ is_active' = [s \in SensorIds |-> SensorType(s) = "temperature"]

NextOnData ==
    \/ OnlyTemperatureUp
    \/ (caller.pc = "initialized" /\ StartStreaming)
    \/ \E i \in TaskIds :
          /\ is_active[tasks[i].sensor]
          /\ \/ LoopTest(i)
             \/ (ReadSucceedsWithin(i, OnDataMaxReads) /\ SteadyAtFirst(tasks'[i].reading))
             \/ OnSensorData(i)
             \/ StoreReading(i)

SpecOnData == Init /\ [][NextOnData]_vars

\* SpecInit: as SpecStop without the fairness, with the results of
\* initialize_all kept
NextInit ==
    \/ InitializeAllReturns
    \/ StartStreaming
    \/ StopStreaming
    \/ ShutdownAll
    \/ JoinTasks
    \/ ShutdownSensor
    \/ SaveOnStop
    \/ \E i \in TaskIds : TaskStep(i)

SpecInit == Init /\ [][NextInit]_vars

(***************************************************************************)
(* Claims about the update pass (SpecLearner, SpecDrift).                  *)
(***************************************************************************)
\* the step is one add_experience call
IsAddStep == adds' = adds + 1 /\ last_call'.op = "add"

\* C3 as stated: add_experience runs exactly one full update pass, over the
\* entire buffer, when the buffered count crosses update_threshold (it was below
\* the threshold before the call and is not after it), and a call that does not
\* cross the threshold runs no update pass.
C3_PassOnlyOnCrossing ==
    last_call.op = "add" =>
        LET crossed == /\ last_call.before < update_threshold
                       /\ Len(experience_buffer) >= update_threshold
        IN  IF crossed
            THEN last_call.passes = 1 /\ last_call.over = experience_buffer
            ELSE last_call.passes = 0

\* C3 amended: every add_experience call after whose append the buffer holds at
\* least max(update_threshold, 2) experiences runs exactly one update pass, over
\* the entire buffer (update_count grows by one unless the pass raises); a call
\* that leaves the buffer shorter runs none and changes no learned parameter.
C3_PassOnEveryCallAtThreshold ==
    [][IsAddStep =>
        IF Len(experience_buffer') >= Max2(update_threshold, MinUpdateBuffer)
        THEN /\ last_call'.passes = 1
             /\ last_call'.over = experience_buffer'
             /\ last_call'.raised \/ update_count' = update_count + 1
        ELSE /\ last_call'.passes = 0
             /\ learnedVars' = learnedVars]_vars

\* C3 witness: a call that found the buffer already at the threshold ran a pass,
\* and an earlier call of the same learner below the threshold ran none
C3_Witness ==
    /\ last_call.op = "add"
    /\ last_call.passes = 1
    /\ last_call.before >= update_threshold
    /\ update_count >= 2
    /\ total_samples > update_count

\* the pass over buffer buf computes a sample weight for column i of the group of
\* key's sensor, and column i is key's feature
WeightSampled(buf, key, i) ==
    LET g == Group(buf, key[1])
    IN  /\ Len(g) >= MinWeightSamples
        /\ ~Heterogeneous(g)
        /\ i \in 1..Len(g[1].feature_names)
        /\ g[1].feature_names[i] = key[2]
        /\ SeqSum([j \in 1..Len(g[1].features) |-> ScaledVar(Column(g, j))]) > 0

SampleOf(buf, key, i) ==
    LET g == Group(buf, key[1])
    IN  SampleWeight(g, i, SeqSum([j \in 1..Len(g[1].features) |-> ScaledVar(Column(g, j))]))

WeightsInUnitInterval ==
    \A key \in DOMAIN feature_weights :
        feature_weights[key] >= 0 /\ feature_weights[key] <= Unit

OfSensor(m, sid) == [k \in {x \in DOMAIN m : x[1] = sid} |-> m[k]]
ClustersOf(cl, sid) == IF sid \in DOMAIN cl THEN cl[sid] ELSE <<>>

HeteroSensors(buf) == {sid \in SensorIds : Heterogeneous(Group(buf, sid))}

\* C6: in an update pass, a sensor whose buffered vectors differ in length is
\* skipped by all three sub-updates (its weights, thresholds and clusters are
\* left as they were), no error is raised, and every sensor with a homogeneous
\* group is still updated in that pass.
C6_HeterogeneousSkipped ==
    [][(IsAddStep /\ last_call'.passes = 1 /\ HeteroSensors(experience_buffer') # {}) =>
        /\ ~last_call'.raised
        /\ \A sid \in HeteroSensors(experience_buffer') :
              /\ OfSensor(feature_weights', sid) = OfSensor(feature_weights, sid)
              /\ OfSensor(anomaly_thresholds', sid) = OfSensor(anomaly_thresholds, sid)
              /\ ClustersOf(pattern_clusters', sid) = ClustersOf(pattern_clusters, sid)
        /\ \A sid \in SensorIds \ HeteroSensors(experience_buffer') :
              LET g == Group(experience_buffer', sid)
              IN  /\ OfSensor(feature_weights', sid)
                        = OfSensor(WeightsOfSensor(feature_weights, sid, g), sid)
                  /\ OfSensor(anomaly_thresholds', sid)
                        = OfSensor(ThresholdsOfSensor(anomaly_thresholds, sid, g), sid)
                  /\ Len(g) >= MaxClusters => sid \in DOMAIN pattern_clusters'
      ]_vars

\* a sensor whose clusters were learned at one vector length and whose buffered
\* group is now homogeneous at another
Drifted(cl, buf) ==
    \E sid \in DOMAIN cl :
        LET g == Group(buf, sid)
        IN  /\ Len(g) >= MaxClusters
            /\ ~Heterogeneous(g)
            /\ \E i \in 1..Len(cl[sid]) : Len(cl[sid][i]) # Len(g[1].features)

\* C7: add_experience never raises because a sensor's vector length changed: a
\* pass that sees a homogeneous group of a length other than the one its
\* clusters were learned at completes and increments update_count.
C7_LengthChangeNeverRaises ==
    [][(IsAddStep /\ last_call'.passes = 1 /\ Drifted(pattern_clusters, experience_buffer')) =>
        /\ ~last_call'.raised
        /\ update_count' = update_count + 1]_vars

(***************************************************************************)
(* Claims about persistence (SpecPersist).                                 *)
(***************************************************************************)
\* C4: when load_learned_parameters finds no file, or a record in which a
\* required field is missing or malformed, it reports failure and the weights,
\* thresholds, clusters, update_count and total_samples keep the values they
\* had before the call.
C4_FailedLoadKeepsState ==
    (last_call.op = "load" /\ ~last_call.complete) =>
        ~last_call.ok /\ Learned = last_call.pre

\* C5: save_learned_parameters followed by load_learned_parameters of the file
\* it wrote, into the same learner or a fresh one, succeeds and yields the
\* weights, thresholds, clusters, update_count and total_samples of the time of
\* the save.
C5_SaveLoadRoundTrip ==
    (last_call.op = "load" /\ last_call.intact) =>
        last_call.ok /\ Learned = last_call.saved

\* C5 witness: a load of the saved file brought back learned weights, bands and
\* clusters that the learner did not hold before the call
C5_Witness ==
    /\ last_call.op = "load"
    /\ last_call.intact
    /\ Learned # last_call.pre
    /\ feature_weights # EmptyMap
    /\ \E k \in DOMAIN anomaly_thresholds :
          anomaly_thresholds[k].lower < anomaly_thresholds[k].upper
    /\ pattern_clusters # EmptyMap
    /\ update_count > 0

(***************************************************************************)
(* Claims about streaming (Spec).                                          *)
(***************************************************************************)
\* C1: add_experience is indivisible with respect to the other sensor callback
\* tasks: from its append to its return (the update pass it may run included)
\* no other task takes a step, nobody else reads or writes the learner, and the
\* buffer it iterates over receives no other append.
C1_AddExperienceIndivisible ==
    [][\A i \in TaskIds :
          tasks[i].pc \in InsideAddExperience =>
              /\ \A j \in TaskIds \ {i} : tasks'[j] = tasks[j]
              /\ tasks'[i].pc \in InsideAddExperience \cup {"store"}
              /\ UNCHANGED <<experience_buffer, total_samples, caller, file>>
      ]_vars

\* C1 witness: a task is in the middle of an update pass, with the weights
\* rewritten and the thresholds not yet, while another task that has already
\* delivered a reading waits for the event loop
C1_Witness ==
    \E i, j \in TaskIds :
        /\ i # j
        /\ tasks[i].pc = "thresholds"
        /\ tasks[j].pc = "sleep"
        /\ tasks[j].reading # NoReading
        /\ feature_weights # EmptyMap

\* C2: a sensor's data buffer never holds more than buffer_size readings; the
\* only change to it is the append of the reading its loop has just read, and
\* when the buffer is full that append evicts the oldest reading first.
C2_DataBufferBounded ==
    [][\A s \in SensorIds :
          /\ Len(data_buffers'[s]) <= BufferSize
          /\ data_buffers'[s] # data_buffers[s] =>
                \E i \in TaskIds :
                    /\ tasks[i].sensor = s
                    /\ tasks[i].pc = "store"
                    /\ data_buffers'[s]
                          = (IF Len(data_buffers[s]) = BufferSize
                             THEN Tail(data_buffers[s])
                             ELSE data_buffers[s]) \o <<tasks[i].reading>>
      ]_vars

\* C2 witness: a full buffer whose sensor has produced more readings than the
\* buffer holds, so that its oldest reading is no longer the sensor's first
C2_Witness ==
    \E s \in SensorIds :
        /\ Len(data_buffers[s]) = BufferSize
        /\ Len(feature_windows[s]) > BufferSize
        /\ \A k \in 1..(BufferSize - 1) :
              data_buffers[s][k].timestamp < data_buffers[s][k + 1].timestamp
        /\ \E i \in TaskIds :
              /\ tasks[i].sensor = s
              /\ tasks[i].pc = "sleep"
              /\ tasks[i].reading = data_buffers[s][BufferSize]

\* the step is task i's call of sensor.read() that raises
FailedRead(i) == tasks[i].pc = "read" /\ tasks'[i].pc \notin {"read", "preprocess"}

\* C8: a read that raises inside a sampling loop does not end the loop: the
\* error is taken by the loop, which backs off and then tests the stop event
\* again; a loop ends only once the stop event is set; the readings it obtains
\* later are still appended; and the failing step touches no other sensor's
\* loop or buffer.
C8_ReadErrorKeepsLoop ==
    [][\A i \in TaskIds :
          /\ FailedRead(i) =>
                /\ tasks'[i].pc = "backoff"
                /\ \A j \in TaskIds \ {i} : tasks'[j] = tasks[j]
                /\ UNCHANGED <<data_buffers, stop_event, active_tasks>>
          /\ (tasks[i].pc = "backoff" /\ tasks'[i].pc # "backoff") =>
                tasks'[i].pc = IF stop_event THEN "done" ELSE "read"
          /\ (tasks[i].pc # "done" /\ tasks'[i].pc = "done") => stop_event
          /\ (tasks[i].pc = "store" /\ tasks'[i].pc # "store") =>
                LET buf == data_buffers'[tasks[i].sensor]
                IN  buf # <<>> /\ buf[Len(buf)] = tasks[i].reading
      ]_vars

\* C8 witness: a loop whose read failed has since stored a reading, next to
\* another sensor's loop that has stored readings without ever failing
C8_Witness ==
    \E i, j \in TaskIds :
        /\ i # j
        /\ tasks[i].failed
        /\ tasks[i].recovered
        /\ tasks[i].pc = "sleep"
        /\ ~tasks[j].failed
        /\ data_buffers[tasks[j].sensor] # <<>>

C10_OnlyActiveSensorsStream ==
    \A i \in TaskIds : tasks[i].pc # "done" => is_active[tasks[i].sensor]

\* C11: whatever start_streaming and stop_streaming calls are made, at most one
\* sampling loop runs per sensor at any time, so that each sensor's data buffer
\* has a single writer task.
C11_OneLoopPerSensor ==
    \A i, j \in TaskIds :
        (i # j /\ tasks[i].pc # "done" /\ tasks[j].pc # "done")
            => tasks[i].sensor # tasks[j].sensor

(***************************************************************************)
(* Claims about detect_anomaly (SpecDetect).                               *)
(***************************************************************************)
\* the last call was detect_anomaly on a record of sensor sid with value v
Detected(sid, v) ==
    /\ last_call.op = "detect"
    /\ last_call.features.sensor_id = sid
    /\ FedValue(last_call.features) = v

\* C12: detect_anomaly returns (false, 0.0) for a record of a sensor for which
\* no threshold has been learned, whatever the feature values.
C12_NoThresholdNoAnomaly ==
    \A sid \in SensorIds :
        (last_call.op = "detect"
            /\ last_call.features.sensor_id = sid
            /\ OfSensor(anomaly_thresholds, sid) = EmptyMap)
        => (~last_call.result.is_anomaly /\ last_call.result.score = 0)

\* C12 witness: a sensor without thresholds was probed with the far value
\* while the other sensor's band, which that value lies outside, was learned
C12_Witness ==
    /\ Detected("sB", ScenarioProbe)
    /\ OfSensor(anomaly_thresholds, "sB") = EmptyMap
    /\ Key("sA", "f1") \in DOMAIN anomaly_thresholds
    /\ anomaly_thresholds[Key("sA", "f1")].upper < ScenarioProbe * Unit

\* the band learned for the fed feature is (v, v), and the last detect_anomaly
\* call, if it was on another value of that feature, reported an anomaly with a
\* positive score (1.0 for v = 0)
DegenerateBand(v) ==
    /\ Key("sA", "f1") \in DOMAIN anomaly_thresholds
    /\ anomaly_thresholds[Key("sA", "f1")] = [lower |-> v * Unit, upper |-> v * Unit]
    /\ \A w \in ProbeValues \ {v} :
          Detected("sA", w) =>
              /\ last_call.result.is_anomaly
              /\ last_call.result.score > 0
              /\ v = 0 => last_call.result.score = Unit

\* C13 as stated: 5 or more experiences of one sensor with the same constant
\* value v yield the band (v, v), and detect_anomaly on any other value reports
\* an anomaly with score > 0 (score 1.0 when v = 0).
C13_ConstantFeedDegenerateBand ==
    (Len(experience_buffer) >= MinThresholdSamples /\ ConstantFeed(experience_buffer))
        => DegenerateBand(FedValue(experience_buffer[1]))

\* C13 amended: the same once the buffer holds at least max(update_threshold, 5)
\* such experiences, that is once an update pass has run over 5 or more of them.
C13_ConstantFeedAfterPass ==
    (/\ Len(experience_buffer) >= Max2(update_threshold, MinThresholdSamples)
     /\ ConstantFeed(experience_buffer))
        => DegenerateBand(FedValue(experience_buffer[1]))

\* C13 witness: a learner fed the constant 0 was probed with another value and
\* reported it anomalous with score 1.0
C13_Witness ==
    /\ Len(experience_buffer) >= Max2(update_threshold, MinThresholdSamples)
    /\ ConstantFeed(experience_buffer)
    /\ FedValue(experience_buffer[1]) = 0
    /\ Detected("sA", ScenarioLow)
    /\ last_call.result = [is_anomaly |-> TRUE, score |-> Unit]

\* C14: a fresh learner with update_threshold = 10 fed single-feature
\* experiences alternating between 20.0 and 24.0: from the completion of the
\* second update pass on, the learned band has lower <= 20.0 and upper >= 24.0,
\* and detect_anomaly on 40.0 reports an anomaly with a positive score.
C14_OscillatingScenario ==
    (/\ update_threshold = ScenarioThreshold
     /\ AlternatingFeed(experience_buffer)
     /\ update_count >= 2)
        => /\ Key("sA", "f1") \in DOMAIN anomaly_thresholds
           /\ anomaly_thresholds[Key("sA", "f1")].lower <= ScenarioLow * Unit
           /\ anomaly_thresholds[Key("sA", "f1")].upper >= ScenarioHigh * Unit
           /\ Detected("sA", ScenarioProbe) =>
                 last_call.result.is_anomaly /\ last_call.result.score > 0

\* C14 witness: all twenty experiences fed, and 40.0 found anomalous
C14_Witness ==
    /\ update_threshold = ScenarioThreshold
    /\ AlternatingFeed(experience_buffer)
    /\ Len(experience_buffer) = ScenarioAdds
    /\ update_count >= 2
    /\ Detected("sA", ScenarioProbe)
    /\ last_call.result.is_anomaly
    /\ last_call.result.score < Unit

(***************************************************************************)
(* Claims about the inference engine (SpecMonitor, SpecMonitorFair).       *)
(***************************************************************************)
\* C16: the monitoring loop never has two inference calls in flight: a
\* run_inference call is running only while the loop is in that call, never
\* while the result callback of the iteration is running or the loop sleeps;
\* and every iteration makes exactly one run_inference call.
C16_TicksNeverOverlap ==
    /\ monitor.in_flight <= 1
    /\ monitor.calls <= 1
    /\ monitor.in_flight = 1 <=> monitor.pc = "inference"
    /\ monitor.pc \in {"inference", "result", "callback", "sleep", "error_sleep"}
          => monitor.calls = 1

\* C16 witness: the second iteration is in its run_inference call after the
\* first one's result went to the callback
C16_Witness ==
    /\ monitor.tick = 2
    /\ monitor.pc = "inference"
    /\ monitor.in_flight = 1
    /\ monitor.delivered = 1

\* a step of the loop out of a raising callback goes to the error sleep, a step
\* out of the error sleep goes back to the head of the loop unless the task was
\* cancelled, and the loop ends by cancellation only
CallbackErrorTaken ==
    /\ (monitor.pc = "callback" /\ monitor'.pc \notin {"callback", "sleep", "cancelled"})
          => (monitor'.pc = "error_sleep" /\ monitor'.callback_failed)
    /\ (monitor.pc = "error_sleep" /\ monitor'.pc # "error_sleep")
          => monitor'.pc \in {"loop", "cancelled"}
    /\ monitor'.pc \in {"loop", "call", "inference", "result", "callback",
                        "sleep", "error_sleep", "cancelled"}
    /\ (monitor.pc # "cancelled" /\ monitor'.pc = "cancelled")
          => monitor.pc \in MonitorSuspended

\* C17: a result callback that raises does not end the monitoring loop: the
\* loop takes the error, sleeps, and unless the task is cancelled goes on to
\* the next iteration; the loop ends by cancellation only.
C17_CallbackErrorKeepsLoop ==
    /\ [][CallbackErrorTaken]_vars
    /\ (monitor.pc = "error_sleep")
          ~> \/ monitor.pc = "cancelled"
             \/ monitor.pc = "call"
             \/ monitor.pc = "loop" /\ monitor.tick = MaxTicks

\* C17 witness: after a callback error a later result was handed to the
\* callback, which returned
C17_Witness ==
    /\ monitor.callback_failed
    /\ monitor.recovered
    /\ monitor.pc = "sleep"
    /\ monitor.delivered >= 2

\* C18: run_inference never fails because of the model backend: whenever it has
\* built a context and no model is loaded or the model call raised, it returns
\* the rule-based summary of that same context, which is the context rendered
\* from the buffers.
C18_FallbackOnBackendFailure ==
    /\ monitor.outcome.response # Raised
    /\ (monitor.outcome.built /\ (model = "none" \/ monitor.outcome.failed))
          => /\ monitor.outcome.context = CreateSensorContext(data_buffers)
             /\ monitor.outcome.response.kind = "summary"
             /\ monitor.outcome.response.insights # <<>>
             /\ monitor.outcome.response = SimulateResponse(monitor.outcome.context)

\* C18 witness: a loaded model raised, and the call returned the summary of a
\* context that reports motion
C18_Witness ==
    /\ model = "loaded"
    /\ monitor.outcome.failed
    /\ monitor.outcome.response.kind = "summary"
    /\ monitor.outcome.response.insights = <<"activity">>
    /\ Len(monitor.outcome.context) >= 2

(***************************************************************************)
(* Claims about the sensors (Spec, SpecNotify).                            *)
(***************************************************************************)
\* C20: read on a sensor that is not active fails with an error: the calling
\* loop gets no reading (it goes to its error path with the reading it had), no
\* callback is notified (no preprocessing, no learner change) and no history
\* buffer changes.
C20_InactiveReadFails ==
    [][\A i \in TaskIds :
          (tasks[i].pc = "read" /\ ~is_active[tasks[i].sensor] /\ tasks'[i] # tasks[i])
              => /\ tasks'[i].pc = AfterReadError
                 /\ tasks'[i].failed
                 /\ tasks'[i].reading = tasks[i].reading
                 /\ UNCHANGED <<data_buffers, feature_windows, learnerVars, clock,
                                last_motion>>]_vars

\* C20 witness: the loop of a sensor that is not active has failed a read and
\* holds no reading, its buffer is empty, and the other sensor's loop has
\* stored a reading
C20_Witness ==
    \E i, j \in TaskIds :
        /\ ~is_active[tasks[i].sensor]
        /\ tasks[i].failed
        /\ tasks[i].reading = NoReading
        /\ data_buffers[tasks[i].sensor] = <<>>
        /\ is_active[tasks[j].sensor]
        /\ data_buffers[tasks[j].sensor] # <<>>

\* the loop leaves the notification for the append, and the append for the sleep
NotifiedThenStored ==
    /\ (notify.pc = "notify" /\ notify'.pc # "notify") => notify'.pc = "store"
    /\ (notify.pc = "store" /\ notify'.pc # "store") => notify'.pc = "sleep"

\* C19: when a callback registered on a sensor raises while being notified of a
\* reading, every registered callback is still invoked once with that reading,
\* in registration order; read still returns the reading; and the sampling loop
\* appends it to the history without taking the backoff path.
C19_CallbackErrorConfined ==
    /\ [](notify.pc \in {"store", "sleep"} /\ notify.returned
            => /\ notify.invoked = [k \in 1..NumCallbacks |-> k]
               /\ notify.reading # NoReading)
    /\ [](notify.pc = "sleep" /\ notify.returned
            => /\ data_buffers[NotifySensor] # <<>>
               /\ data_buffers[NotifySensor][Len(data_buffers[NotifySensor])]
                     = notify.reading)
    /\ [][NotifiedThenStored]_vars

\* C19 witness: the first callback raised, the later ones were invoked (one of
\* them raised too, one returned), and the reading is the last of the history
C19_Witness ==
    /\ notify.pc = "sleep"
    /\ 1 \in notify.raised
    /\ \E k \in 2..NumCallbacks : k \notin notify.raised
    /\ Cardinality(notify.raised) >= 2
    /\ Len(notify.invoked) = NumCallbacks
    /\ Len(data_buffers[NotifySensor]) = MaxNotifyReads

\* ---- the preprocessor's contracts (SpecPreprocess) ----

\* process_reading applied once to each reading in order
RECURSIVE ProcessEach(_, _)
ProcessEach(windows, readings) ==
    IF readings = <<>> THEN [windows |-> windows, results |-> <<>>]
    ELSE LET r == Head(readings)
             one == ProcessReading(windows[r.sensor_id], r)
             rest == ProcessEach([windows EXCEPT ![r.sensor_id] = one.window],
                                 Tail(readings))
         IN  [windows |-> rest.windows, results |-> <<one.features>> \o rest.results]

\* C21: process_batch returns, for every reading, the feature record (feature
\* names and vector length) that process_reading applied once to each reading in
\* order returns from the same windows, and leaves the windows in the same state.
C21_BatchEqualsSequential ==
    last_call.op = "batch" =>
        LET each == ProcessEach(last_call.before, last_call.readings)
        IN  /\ feature_windows = each.windows
            /\ Len(last_call.results) = Len(each.results)
            /\ \A k \in 1..Len(each.results) :
                  /\ last_call.results[k].feature_names = each.results[k].feature_names
                  /\ Len(last_call.results[k].features) = Len(each.results[k].features)

\* the value does not have the shape the sensor type expects
Mismatch(stype, shape) ==
    \/ stype = "temperature" /\ shape # "number"
    \/ stype = "camera" /\ shape # "array"
    \/ stype = "accelerometer" /\ shape # "map"

\* C22: process_reading on a reading whose value does not have the shape its
\* sensor type expects (camera value no array, accelerometer value no map,
\* temperature value no number) returns no result and raises no error.
C22_MismatchGivesNoResult ==
    (last_call.op = "process" /\ Mismatch(last_call.stype, last_call.shape))
        => last_call.result = "none"

\* the feature names a record holds
NamesOf(e) == {e.feature_names[k] : k \in 1..Len(e.feature_names)}

WindowedNames(stype) ==
    IF stype = "temperature"
    THEN {"temperature_mean", "temperature_std", "temperature_min", "temperature_max"}
    ELSE {"motion_frequency", "time_since_motion"}

\* C23: a temperature or motion record holds the windowed features (all of them)
\* exactly when the sensor's window holds window_size samples at that reading,
\* and the temperature delta exactly when it holds at least 2; every window holds
\* at most window_size samples, and a reading changes no other sensor's window.
C23_WindowedFeaturesWhenFull ==
    /\ \A s \in SensorIds : Len(feature_windows[s]) <= WindowSize
    /\ (last_call.op = "process" /\ last_call.shape = "number") =>
          LET s == last_call.sensor
              held == Len(feature_windows[s])
              names == NamesOf(last_call.features)
          IN  /\ last_call.result = "record"
              /\ IF held = WindowSize
                 THEN WindowedNames(last_call.stype) \subseteq names
                 ELSE WindowedNames(last_call.stype) \cap names = {}
              /\ last_call.stype = "temperature"
                    => ("temperature_delta" \in names <=> held >= 2)
              /\ Len(last_call.features.features) = Len(last_call.features.feature_names)
              /\ \A o \in SensorIds \ {s} : feature_windows[o] = last_call.before[o]

\* C23 witness: a reading of one sensor fills its window and its record holds the
\* rolling statistics and the delta, while the other sensor's window, which
\* holds a sample, stays as it was
C23_Witness ==
    /\ last_call.op = "process" /\ last_call.shape = "number"
    /\ last_call.sensor = "sA"
    /\ Len(last_call.before["sA"]) = WindowSize - 1
    /\ Len(feature_windows["sA"]) = WindowSize
    /\ "temperature_mean" \in NamesOf(last_call.features)
    /\ "temperature_delta" \in NamesOf(last_call.features)
    /\ feature_windows["sB"] # <<>>

\* ---- the inference history (SpecMonitor) ----

\* the last n entries of a sequence
LastEntries(q, n) == IF Len(q) <= n THEN q ELSE SubSeq(q, Len(q) - n + 1, Len(q))

\* a run_inference call that returns the model's output records it last, in
\* front of it the most recent earlier entries that fit, in their order; no other
\* step changes the history
RecordsNewest ==
    IF monitor.pc = "inference" /\ monitor'.outcome.response = Generated
    THEN /\ context_memory' # <<>>
         /\ context_memory'[Len(context_memory')].timestamp = clock + monitor.tick
         /\ SubSeq(context_memory', 1, Len(context_memory') - 1)
               = LastEntries(context_memory, MaxContext - 1)
    ELSE context_memory' = context_memory

\* C24: the inference history never holds more than max_context entries; every
\* run_inference that records a result puts it last and keeps the most recent
\* earlier entries in the order they were recorded, dropping the oldest ones.
C24_HistoryBoundedFifo ==
    /\ [](Len(context_memory) <= MaxContext)
    /\ [](\A i, j \in 1..Len(context_memory) :
             i < j => context_memory[i].timestamp < context_memory[j].timestamp)
    /\ [][RecordsNewest]_vars

\* C24 witness: more results were recorded than the history holds; the first
\* one is gone and the history is full
C24_Witness ==
    /\ Len(context_memory) = MaxContext
    /\ context_memory[1].timestamp > clock + 1
    /\ context_memory[MaxContext].timestamp = clock + monitor.tick

\* ---- the rendered context (SpecMonitor) ----

\* the line is the one of sensor s, rendered from the reading r
RendersLatest(line, s, r) ==
    /\ line.kind # "trend"
    /\ line.sensor = s
    /\ line.kind = "temperature" => line.value = r.value
    /\ line.kind = "motion" => r.value # 0
    /\ line.kind = "no_motion" =>
          r.value = 0 /\ line.elapsed = r.timestamp - r.last_motion

\* C25: the context that run_inference has create_sensor_context build holds
\* exactly one line for each registered sensor that has a reading, built from
\* that sensor's most recent reading, the lines in registration order.
C25_OneLinePerSensor ==
    monitor.outcome.built =>
        LET with == SensorData(data_buffers)
            context == monitor.outcome.context
        IN  /\ Len(context) = Len(with)
            /\ \A k \in 1..Len(with) :
                  RendersLatest(context[k], with[k],
                                data_buffers[with[k]][Len(data_buffers[with[k]])])

\* ---- the pattern clusters (SpecDrift) ----

\* a sensor gets its entry in a step that is an update pass over a buffer with
\* at least 5 experiences of that sensor, all of one vector length
EntersInPass ==
    \A sid \in DOMAIN pattern_clusters' \ DOMAIN pattern_clusters :
        /\ last_call'.op = "add"
        /\ last_call'.passes = 1
        /\ last_call'.over = experience_buffer'
        /\ Len(Group(experience_buffer', sid)) >= MaxClusters
        /\ ~Heterogeneous(Group(experience_buffer', sid))

\* C26: after any sequence of add_experience calls every sensor of
\* pattern_clusters has at most 5 centroids, and a sensor enters pattern_clusters
\* only in an update pass that saw at least 5 buffered experiences of it, all
\* with the same feature-vector length.
C26_ClustersBoundedAndEarned ==
    /\ [](\A sid \in DOMAIN pattern_clusters :
             /\ Len(pattern_clusters[sid]) >= 1
             /\ Len(pattern_clusters[sid]) <= MaxClusters)
    /\ [][EntersInPass]_vars

\* C26 witness: both sensors have their 5 centroids, one of them after the
\* experiences that earned them have left the buffer
C26_Witness ==
    /\ DOMAIN pattern_clusters = SensorIds
    /\ \A sid \in SensorIds : Len(pattern_clusters[sid]) = MaxClusters
    /\ \E sid \in SensorIds : Len(Group(experience_buffer, sid)) < MaxClusters

\* ---- the query surface (SpecQuery) ----

\* the readings a sensor has stored
StoredOf(sid) == StoredReadings(data_buffers, sid)

\* C27: get_recent_data(sensor_id, n) returns, for every n >= 0, the last
\* min(n, stored count) readings of the sensor in chronological order, and an
\* empty list for a sensor id that is not registered.
C27_RecentDataLastN ==
    last_call.op = "recent" =>
        LET stored == StoredOf(last_call.sensor)
            k == Min2(last_call.n, Len(stored))
        IN  /\ Len(last_call.result) = k
            /\ last_call.result = SubSeq(stored, Len(stored) - k + 1, Len(stored))

\* get_sensor_stats counts every stored reading and takes the extremes over all
\* of them
C28_StatsOverWholeHistory ==
    (last_call.op = "stats" /\ StoredOf(last_call.sensor) # <<>>) =>
        LET all == StatsOf(StoredOf(last_call.sensor))
        IN  /\ last_call.result.kind = "stats"
            /\ last_call.result.count = Len(StoredOf(last_call.sensor))
            /\ last_call.result.min = all.min
            /\ last_call.result.max = all.max

\* C28: get_sensor_stats computes count, mean, std, min, max and latest over the
\* most recent min(100, stored) readings of the sensor (the whole stored history
\* when it holds at most 100), and returns an empty result when there are none.
C28_StatsOverRecent ==
    last_call.op = "stats" =>
        LET stored == StoredOf(last_call.sensor)
            recent == LastEntries(stored, StatsCount)
        IN  IF stored = <<>> THEN last_call.result = EmptyStats
            ELSE /\ last_call.result = StatsOf(recent)
                 /\ last_call.result.count = Min2(StatsCount, Len(stored))
                 /\ Len(stored) <= StatsCount => last_call.result = StatsOf(stored)

\* C28 witness: the statistics of a temperature sensor that stores more
\* readings than the statistics cover, the oldest one being the only one of its
\* value
C28_Witness ==
    /\ last_call.op = "stats"
    /\ last_call.sensor = "sA"
    /\ Len(data_buffers["sA"]) = StatsCount + 1
    /\ last_call.result.count = StatsCount
    /\ last_call.result.min = last_call.result.max
    /\ data_buffers["sA"][1].value # last_call.result.min

\* ---- the save (SpecSave) ----

\* C29: at every point during a save, a failure or interruption part-way
\* included, the file holds either the complete previous record or the complete
\* new record, never an empty or partial one.
C29_SaveAtomic ==
    last_call.op \in {"saving", "save_failed"} =>
        \/ file = last_call.previous
        \/ file = [exists |-> TRUE, doc |-> SavedRecord(Learned),
                   absent |-> {}, bad |-> {}]

\* ---- the frame of the learned state (SpecFrame) ----

\* the calls that only read the learned state
ReadOnlyOps == {"detect", "predict", "importance", "summary", "save"}

\* a step changes a map or update_count only as an add_experience that runs an
\* update pass or as a load; the read-only calls and an add_experience without a
\* pass leave all four as they are
LearnedFrame ==
    /\ learnedVars' # learnedVars =>
          \/ last_call'.op = "add" /\ last_call'.passes = 1
          \/ last_call'.op = "load"
    /\ last_call'.op \in ReadOnlyOps => learnedVars' = learnedVars
    /\ (last_call'.op = "add" /\ last_call'.passes = 0) =>
          /\ learnedVars' = learnedVars
          /\ total_samples' = total_samples + 1

\* C30: feature_weights, anomaly_thresholds, pattern_clusters and update_count
\* change only inside an update pass or a load: detect_anomaly, predict_pattern,
\* get_feature_importance, get_learning_summary, save_learned_parameters and an
\* add_experience call that triggers no update pass leave them unchanged.
C30_LearnedChangesOnlyInPass == [][LearnedFrame]_vars

\* C30 witness: a lookup of the weight of a feature the learner has no weight
\* for, on a learner that has learned weights, bands and clusters
C30_Witness ==
    /\ last_call.op = "importance"
    /\ Key(last_call.sensor, last_call.name) \notin DOMAIN feature_weights
    /\ last_call.result = 0
    /\ feature_weights # EmptyMap
    /\ anomaly_thresholds # EmptyMap
    /\ pattern_clusters # EmptyMap

\* ---- the experience buffer and its counter (SpecLearner) ----

\* an add_experience step puts its experience last, keeps the newest earlier
\* entries that fit in front of it in their order, and counts the call
AppendsAndCounts ==
    /\ experience_buffer' # <<>>
    /\ SubSeq(experience_buffer', 1, Len(experience_buffer') - 1)
          = LastEntries(experience_buffer, memory_size - 1)
    /\ total_samples' = total_samples + 1

VectorsOf(g) == {g[k].features : k \in 1..Len(g)}

\* n is what the update loop makes of the centre c over the group g
Recentred(g, c, n) ==
    IF ClosePoints(g, c) = <<>> THEN n = c
    ELSE n = BlendCenter(c, ClosePoints(g, c))

\* the sensors whose clusters the pass of this step went over
Clustered ==
    {sid \in DOMAIN pattern_clusters' :
        /\ last_call'.op = "add" /\ last_call'.passes = 1 /\ ~last_call'.raised
        /\ EnoughToCluster(Group(experience_buffer', sid))
        /\ ~Heterogeneous(Group(experience_buffer', sid))}

\* right after a sensor's first cluster pass every centroid is one of the
\* sensor's buffered feature vectors
SeededOnly ==
    \A sid \in DOMAIN pattern_clusters' \ DOMAIN pattern_clusters :
        \A i \in 1..Len(pattern_clusters'[sid]) :
            pattern_clusters'[sid][i] \in VectorsOf(Group(experience_buffer', sid))

C32_FirstPassOnlySeeds == [][SeededOnly]_vars

\* the first pass seeds each centroid from a buffered vector and re-centres it
\* at once; a later pass re-centres the centroid it finds
SeededAndRecentred ==
    \A sid \in Clustered :
        LET g == Group(experience_buffer', sid)
            new == pattern_clusters'[sid]
        IN  IF sid \notin DOMAIN pattern_clusters
            THEN \A i \in 1..Len(new) : \E seed \in VectorsOf(g) : Recentred(g, seed, new[i])
            ELSE /\ Len(new) = Len(pattern_clusters[sid])
                 /\ \A i \in 1..Len(new) : Recentred(g, pattern_clusters[sid][i], new[i])

\* C32: the first cluster pass for a sensor seeds the centroids from the sensor's
\* buffered feature vectors and re-centres them in the same pass, as every later
\* pass does: a centroid with assigned points becomes 0.7*centroid + 0.3*mean of
\* the assigned points, a centroid with none keeps its value.
C32_SeededThenRecentred == [][SeededAndRecentred]_vars

\* C32 witness: a sensor's first cluster pass has left a centroid that is none of
\* its buffered vectors
C32_Witness ==
    /\ last_call.op = "add" /\ last_call.passes = 1 /\ ~last_call.raised
    /\ update_count = 1 + (memory_size - Max2(update_threshold, MinUpdateBuffer))
    /\ \E sid \in DOMAIN pattern_clusters :
          \E i \in 1..Len(pattern_clusters[sid]) :
              pattern_clusters[sid][i] \notin VectorsOf(Group(experience_buffer, sid))

\* ---- the anomaly verdict and its score (SpecScore) ----

\* the features of the record f that have a learned threshold and lie strictly
\* outside it
Triggered(f) ==
    {i \in 1..Len(f.feature_names) :
        /\ Key(f.sensor_id, f.feature_names[i]) \in DOMAIN anomaly_thresholds
        /\ LET band == anomaly_thresholds[Key(f.sensor_id, f.feature_names[i])]
           IN  f.features[i] < band.lower \/ f.features[i] > band.upper}

\* the score of a triggered feature in hundredths, rounded up: the distance
\* beyond the violated bound over that bound's magnitude, 1.0 for a bound of 0
TriggeredScore(f, i) ==
    LET band == anomaly_thresholds[Key(f.sensor_id, f.feature_names[i])]
        below == f.features[i] < band.lower
        bound == IF below THEN band.lower ELSE band.upper
        beyond == IF below THEN band.lower - f.features[i] ELSE f.features[i] - band.upper
    IN  IF bound = 0 THEN Unit
        ELSE CHOOSE q \in 1..(beyond * Unit + 1) :
                 (q - 1) * Abs(bound) < beyond * Unit /\ beyond * Unit <= q * Abs(bound)

RECURSIVE ScoreSum(_, _)
ScoreSum(f, is) ==
    IF is = {} THEN 0
    ELSE LET i == CHOOSE j \in is : TRUE
         IN  TriggeredScore(f, i) + ScoreSum(f, is \ {i})

\* C33: detect_anomaly reports a record anomalous exactly when a feature with a
\* learned threshold lies strictly outside its band; the score is then the mean
\* of the triggered features' scores (rounded up to hundredths here) and
\* strictly positive, and it is 0.0 when the record is not anomalous.
C33_AnomalyIffTriggered ==
    last_call.op = "detect" =>
        LET f == last_call.features
            n == Cardinality(Triggered(f))
            score == last_call.result.score
        IN  /\ last_call.result.is_anomaly <=> n > 0
            /\ n = 0 => score = 0
            /\ n > 0 => /\ score > 0
                        /\ (score - 1) * n < ScoreSum(f, Triggered(f))
                        /\ ScoreSum(f, Triggered(f)) <= score * n

\* C33 witness: of the three features of a record one has no threshold and two
\* lie outside their bands with different scores
C33_Witness ==
    /\ last_call.op = "detect"
    /\ Cardinality(DOMAIN anomaly_thresholds) = 2
    /\ Cardinality(Triggered(last_call.features)) = 2
    /\ TriggeredScore(last_call.features, 1) # TriggeredScore(last_call.features, 2)
    /\ last_call.result.score # Unit

\* ---- the pattern lookup (SpecFrame) ----

\* C34: predict_pattern returns None when the sensor has no learned clusters;
\* otherwise it returns an index i, 0 <= i < number of centroids, of a centroid
\* that no other centroid is strictly closer than to the feature vector, the
\* lowest such index on ties.
C34_NearestCentroidIndex ==
    last_call.op = "predict" =>
        LET f == last_call.features
            res == last_call.result
        IN  IF f.sensor_id \notin DOMAIN pattern_clusters
            THEN res.kind = "none"
            ELSE LET clusters == pattern_clusters[f.sensor_id]
                 IN  /\ res.kind = "index"
                     /\ res.index >= 0 /\ res.index < Len(clusters)
                     /\ \A j \in 1..Len(clusters) :
                           /\ DistSq(f.features, clusters[res.index + 1])
                                 <= DistSq(f.features, clusters[j])
                           /\ j < res.index + 1 =>
                                 DistSq(f.features, clusters[res.index + 1])
                                    < DistSq(f.features, clusters[j])

\* C35: while the stop event is set no sampling loop begins a read; a
\* stop_streaming that waits for its loops returns, after every one of them has
\* ended, with the task list empty; a stop_streaming or shutdown_all called
\* after that returns too
BeginsRead(i) == i \in TaskIds /\ tasks[i].pc # "read" /\ tasks'[i].pc = "read"
NoReadBegins == stop_event => \A i \in 1..Len(Registered) : ~BeginsRead(i)
StopReturns ==
    (caller.pc = "joining" /\ caller'.pc # "joining")
        => /\ \A i \in TaskIds : tasks[i].pc = "done"
           /\ active_tasks' = <<>>
CalledAgain == caller.stops = MaxStops
C35_StopEndsEveryLoop ==
    /\ [][NoReadBegins]_vars
    /\ [][StopReturns]_vars
    /\ (caller.pc = "joining") ~> (caller.pc # "joining" /\ active_tasks = <<>>)
    /\ [](CalledAgain => active_tasks = <<>> /\ caller.pc # "joining")

\* a second call has returned after loops that had read were stopped
C35_Witness ==
    /\ CalledAgain
    /\ caller.pc = "stopped"
    /\ Len(tasks) > 0
    /\ \A i \in TaskIds : tasks[i].pc = "done"
    /\ \E s \in SensorIds : data_buffers[s] # <<>>

\* C36: on a fresh learner fed vectors of one length, update_count grows by
\* one exactly at the add_experience calls that leave at least
\* max(update_threshold, 2) experiences in the buffer; after k calls it is
\* max(0, k - max(update_threshold, 2) + 1) when max(update_threshold, 2) is at
\* most memory_size, and 0 when update_threshold is above memory_size
PassThreshold == IF update_threshold > 2 THEN update_threshold ELSE 2
CountsFullBuffers ==
    update_count' = IF Len(experience_buffer') >= PassThreshold
                    THEN update_count + 1
                    ELSE update_count
PassesSoFar == IF adds - PassThreshold + 1 > 0 THEN adds - PassThreshold + 1 ELSE 0
CountFormula ==
    /\ PassThreshold <= memory_size => update_count = PassesSoFar
    /\ update_threshold > memory_size => update_count = 0
C36_UpdateCountFormula == []CountFormula /\ [][CountsFullBuffers]_vars

\* a learner whose buffer is full and evicting has counted a pass per call
\* since the threshold was reached
C36_Witness ==
    /\ adds > memory_size
    /\ PassThreshold <= memory_size
    /\ update_threshold > 2
    /\ update_count = adds - update_threshold + 1
    /\ update_count > 1

\* C37: initialize_all returns true exactly when every registered sensor's
\* initialize() returned true, a sensor whose initialize() raises counting as
\* a failure
C37_SuccessIffAllInitialized ==
    last_call.op = "initialize_all"
        => (last_call.success <=> \A s \in SensorIds : last_call.results[s] = "true")

\* C38: when the context built for a fallback summary reports a rising
\* temperature, the summary holds the rising-temperature insight and not the
\* "within normal ranges" default
ReportsRising(context) ==
    \E k \in 1..Len(context) :
        context[k].kind = "trend" /\ context[k].text = "increasing"
Holds(insights, insight) == \E k \in 1..Len(insights) : insights[k] = insight
C38_RisingInsightInSummary ==
    (/\ monitor.outcome.built
     /\ monitor.outcome.response.kind = "summary"
     /\ ReportsRising(monitor.outcome.context))
        => /\ Holds(monitor.outcome.response.insights, "rising")
           /\ ~Holds(monitor.outcome.response.insights, "normal")

\* C39: in the per-reading callback the result of detect_anomaly is the one of
\* the thresholds as they are before the reading is added, and every reading
\* read so far has been added to the buffer exactly once, flagged or not,
\* unless its callback has not reached add_experience yet
BeforeAdd == {"preprocess", "detect", "append"}
CheckedBeforeAdded ==
    \A i \in TaskIds :
        tasks[i].pc = "append" =>
            /\ cur = i
            /\ tasks[i].anomaly = DetectAnomalyResult(anomaly_thresholds, tasks[i].features)
AddsReading(i) ==
    (i \in TaskIds /\ tasks[i].pc = "append" /\ tasks'[i].pc # "append")
        => /\ experience_buffer'
                = DequeAppend(experience_buffer, tasks[i].features, memory_size)
           /\ total_samples' = total_samples + 1
           /\ anomaly_thresholds' = anomaly_thresholds
AddsOnlyThere ==
    total_samples' # total_samples => \E i \in TaskIds : tasks[i].pc = "append"
AddedOnce ==
    total_samples = clock - Cardinality({i \in TaskIds : tasks[i].pc \in BeforeAdd})
C39_CheckedThenAddedOnce ==
    /\ [](CheckedBeforeAdded /\ AddedOnce)
    /\ [][AddsOnlyThere /\ \A i \in 1..Len(Registered) : AddsReading(i)]_vars

\* a reading flagged against the thresholds learned before it has been added,
\* and the pass it set off has moved the thresholds, which now give it another
\* score
C39_Witness ==
    \E i \in TaskIds :
        /\ tasks[i].pc = "store"
        /\ tasks[i].anomaly.is_anomaly
        /\ DetectAnomalyResult(anomaly_thresholds, tasks[i].features) # tasks[i].anomaly
        /\ experience_buffer[Len(experience_buffer)] = tasks[i].features
        /\ total_samples = clock

\* C40: after any sequence of add_experience calls on a fresh learner every
\* threshold band has lower <= upper, and a key of a sensor enters
\* anomaly_thresholds only in an update pass over a buffer that holds at least
\* 5 experiences of that sensor, all of one vector length
BandsOrdered ==
    \A key \in DOMAIN anomaly_thresholds :
        anomaly_thresholds[key].lower <= anomaly_thresholds[key].upper
KeysEnterInPass ==
    \A key \in DOMAIN anomaly_thresholds' \ DOMAIN anomaly_thresholds :
        /\ last_call'.op = "add"
        /\ last_call'.passes = 1
        /\ last_call'.over = experience_buffer'
        /\ Len(Group(experience_buffer', key[1])) >= MinThresholdSamples
        /\ ~Heterogeneous(Group(experience_buffer', key[1]))
C40_BandsOrderedAndEarned == []BandsOrdered /\ [][KeysEnterInPass]_vars

\* a band of some width, blended over several passes, is still there after
\* experiences that earned it have left the buffer
C40_Witness ==
    \E key \in DOMAIN anomaly_thresholds :
        /\ anomaly_thresholds[key].lower < anomaly_thresholds[key].upper
        /\ Len(Group(experience_buffer, key[1])) < MinThresholdSamples
        /\ update_count > MinThresholdSamples

====
